---- MODULE Spec2Model ----
(***************************************************************************)
(* Avalanche proof building (electroncash/avaproof.py), the binary codec   *)
(* of electroncash/avalanche/serialize.py and the fixed-width blobs of     *)
(* electroncash/uint256.py.  Byte strings are sequences of 0..255.  Two    *)
(* ProofBuilder instances live side by side so that properties relating    *)
(* two builds (order-independence, determinism, independence of the        *)
(* limited id from the master key) are properties of single states.        *)
(***************************************************************************)
EXTENDS Integers, Sequences, FiniteSets, Bags, TLC

VARIABLES builder, proof, added, built_from, raised

\* The codec at work: the BytesIO stream being read, the value whose
\* serialization it was opened on, the last call made, what it returned and
\* the number of decoder calls made on the stream.
VARIABLES stream, wrote, call, ret, reads

\* The UInt256 instance the blob calls act on.
VARIABLES bb

\* The delegation builders: each DelegationBuilder, the Delegation its last
\* build() returned, the last call made on a builder and the builder as it
\* was before that call.
VARIABLES dgb, dg, dcall, dprev

\* AddressConsolidator.get_unsigned_transactions at work: the instance's
\* _coins, the coins it selected at construction, the arguments and locals of
\* the call and the position in it.
VARIABLES coins, selected, max_tx_size, transactions, tx, tx_size, tx_amount, pc

\* The consolidation wizard: the status of the transactions page, the
\* signals queued for the GUI thread, the wizard's transactions and the
\* handler that failed, if one did.
VARIABLES status, events, wizard_txs, failed

\* Stake.__init__ packing its height: the height and coinbase flag it was
\* given, the four bytes of the packed field and the exception raised.
VARIABLES stake_height, stake_is_coinbase, height_field, height_raised

builder_vars == <<builder, proof, added, built_from>>

deleg_vars == <<dgb, dg, dcall, dprev>>

cons_vars ==
    <<coins, selected, max_tx_size, transactions, tx, tx_size, tx_amount, pc>>

wizard_vars == <<status, events, wizard_txs, failed>>

height_vars == <<stake_height, stake_is_coinbase, height_field, height_raised>>

\* What the proof builder, the codec and the blobs leave alone.
other_vars == <<deleg_vars, cons_vars, wizard_vars, height_vars>>

codec_vars == <<stream, wrote, call, ret, reads, bb>>

vars ==
    <<builder, proof, added, built_from, raised, stream, wrote, call, ret, reads, bb,
      dgb, dg, dcall, dprev,
      coins, selected, max_tx_size, transactions, tx, tx_size, tx_amount, pc,
      status, events, wizard_txs, failed,
      stake_height, stake_is_coinbase, height_field, height_raised>>

\* No value: nothing was serialized, called or returned.
NoValue == [kind |-> "none"]

\* A value a call returned, with the Python type it has.
Value(type, value) == [kind |-> type, value |-> value]

\* What a call leaves the caller: the value returned, or nothing when it
\* raised exc.
Returns(exc, type, value) == IF exc = "none" THEN Value(type, value) ELSE NoValue

\* io.BytesIO(data): a stream positioned at the start of data.
BytesIO(data) == [data |-> data, pos |-> 0]

\* Largest number of successful add_utxo calls on one builder.
MaxStakes == 2

Builders == {1, 2}

\* A list comprehension, [e for x in l]: the list is made once, its elements
\* computed when it is made and not each time one of them is read.
List(f) == f \o <<>>

(***************************************************************************)
(* Fixed-width integers (struct.pack)                                      *)
(***************************************************************************)

\* Little-endian two's complement bytes of v on n bytes.  Every integer of the
\* model is within 32 bits, so the bytes above the fourth are the sign.
LE(v, n) ==
    List([i \in 1..n |->
            CASE i = 1 -> v % 256
              [] i = 2 -> (v \div 256) % 256
              [] i = 3 -> (v \div 65536) % 256
              [] i = 4 -> (v \div 16777216) % 256
              [] OTHER -> IF v < 0 THEN 255 ELSE 0])

\* struct.pack raises struct.error outside these ranges.
FitsU32(v) == v >= 0 /\ v \div 65536 < 65536
FitsU64(v) == v >= 0 /\ ((v \div 65536) \div 65536) \div 65536 < 65536
FitsI64(v) == LET t == ((v \div 65536) \div 65536) \div 65536
              IN  t >= -32768 /\ t < 32768

(***************************************************************************)
(* External collaborators: double SHA-256, key derivation, Schnorr         *)
(***************************************************************************)

\* UInt256.WIDTH, the number of bytes of a 256-bit blob.
WIDTH == 32

\* Length in bytes of a Schnorr signature.
SigLen == 64

\* A position-weighted digest of b modulo the prime 46337.  The sum over the
\* positions is the cardinality of the bag holding the i-th term copies of i.
Mix(b, seed) ==
    (BagCardinality([i \in 1..Len(b) |-> (b[i] + 1) * i]) + seed * (Len(b) + 1))
        % 46337

\* bitcoin.Hash: a deterministic 32-byte digest of a byte string.
sha256d(b) == LE(Mix(b, 1), WIDTH)

\* schnorr.sign: a deterministic 64-byte signature of msg by a private key.
schnorr_sign(keydata, msg) ==
    LE(Mix(keydata \o msg, 7), WIDTH) \o LE(Mix(msg \o keydata, 11), WIDTH)

\* bitcoin.public_key_from_private_key: SEC1 encoding of the public point.
public_key_from_private_key(keydata, compressed) ==
    LET X == List([i \in 1..WIDTH |-> (keydata[i] * 7 + i) % 256])
        Y == List([i \in 1..WIDTH |-> (keydata[i] * 11 + 3) % 256])
    IN  IF compressed THEN <<2 + (Y[WIDTH] % 2)>> \o X ELSE <<4>> \o X \o Y

\* A 32-byte private scalar whose last two bytes are hi, lo.
Scalar(hi, lo) ==
    List([i \in 1..WIDTH |->
            IF i = WIDTH THEN lo ELSE IF i = WIDTH - 1 THEN hi ELSE 0])

\* bitcoin.deserialize_privkey: (txin_type, 32-byte key, compressed), or an
\* exception for a malformed WIF string.
WifOk(wif) == wif # "notAWif"

deserialize_privkey(wif) ==
    CASE wif = "wifA" -> [keydata |-> Scalar(1, 17), compressed |-> TRUE]
      [] wif = "wifB" -> [keydata |-> Scalar(9, 200), compressed |-> FALSE]
      [] wif = "wifMaster1" -> [keydata |-> Scalar(77, 5), compressed |-> TRUE]
      [] wif = "wifMaster2" -> [keydata |-> Scalar(4, 130), compressed |-> TRUE]

(***************************************************************************)
(* UInt256                                                                 *)
(***************************************************************************)

\* BaseBlob.compare comparing the bytes forwards, the first raw byte the most
\* significant.
BlobCompare_forwards(a, b, i) ==
    LET d == {j \in 1..i : a[j] # b[j]}
    IN  IF d = {} THEN 0
        ELSE LET m == CHOOSE j \in d : \A k \in d : j <= k
             IN  IF a[m] < b[m] THEN -1 ELSE 1

\* BaseBlob.compare: -1, 0 or 1; the bytes are compared backwards.
BlobCompare(a, b, i) ==
    LET d == {j \in 1..i : a[j] # b[j]}
    IN  IF d = {} THEN 0
        ELSE LET m == CHOOSE j \in d : \A k \in d : k <= j
             IN  IF a[m] < b[m] THEN -1 ELSE 1

UInt256_lt(a, b) == BlobCompare(a, b, WIDTH) < 0

\* UInt256(): WIDTH zero bytes.
UInt256_null == List([i \in 1..WIDTH |-> 0])

\* BaseBlob.serialize: the raw bytes in the order they were given.
UInt256_serialize(a) == a

\* A transaction id whose first raw byte is f and last raw byte is l.
TxId(f, l) ==
    List([i \in 1..WIDTH |-> IF i = 1 THEN f ELSE IF i = WIDTH THEN l ELSE 0])

(***************************************************************************)
(* Codec                                                                   *)
(***************************************************************************)

write_compact_size(nsize) ==
    IF nsize < 253 THEN LE(nsize, 1)
    ELSE IF nsize < 65536 THEN <<253>> \o LE(nsize, 2)
    ELSE IF nsize \div 65536 < 65536 THEN <<254>> \o LE(nsize, 4)
    ELSE <<255>> \o LE(nsize, 8)

serialize_blob(blob) == write_compact_size(Len(blob)) \o blob

\* b += obj.serialize() over the elements of a list of byte strings.
RECURSIVE Flatten(_)
Flatten(ss) == IF ss = <<>> THEN <<>> ELSE Head(ss) \o Flatten(Tail(ss))

\* serialize_sequence, given the list of obj.serialize() of its elements.
serialize_sequence(seq) == write_compact_size(Len(seq)) \o Flatten(seq)

PublicKey_serialize(keydata) == serialize_blob(keydata)

Key_get_pubkey(key) == public_key_from_private_key(key.keydata, key.compressed)

\* A signature whose nonce is drawn from the state of the process at the time
\* of signing instead of from the key and the message.
Key_sign_schnorr_fresh_nonce(key, hash) ==
    schnorr_sign(key.keydata, hash \o <<Len(added[1]) + Len(added[2])>>)

Key_sign_schnorr(key, hash) == schnorr_sign(key.keydata, hash)

COutPoint_serialize(utxo) == UInt256_serialize(utxo.txid) \o LE(utxo.n, 4)

(***************************************************************************)
(* Stake, SignedStake, Proof                                               *)
(***************************************************************************)

\* self.height << 1 | is_coinbase
height_ser(height, is_coinbase) == 2 * height + (IF is_coinbase THEN 1 ELSE 0)

\* Stake.serialize, for a stake or for its fields before stake_id is set.
\* struct.pack("qI", ...) is in native order; the supported platforms are
\* little-endian, where it is 8 + 4 bytes without padding.
Stake_serialize(s) ==
    COutPoint_serialize(s.utxo)
        \o LE(s.amount, 8) \o LE(height_ser(s.height, s.is_coinbase), 4)
        \o PublicKey_serialize(s.pubkey)

\* Whether Stake.serialize raises struct.error.
Stake_packs(utxo, amount, height, is_coinbase) ==
    /\ FitsU32(utxo.n)
    /\ FitsI64(amount)
    /\ FitsU32(height_ser(height, is_coinbase))

\* Stake.__init__
Stake(utxo, amount, height, pubkey, is_coinbase) ==
    LET fields == [utxo |-> utxo, amount |-> amount, height |-> height,
                   pubkey |-> pubkey, is_coinbase |-> is_coinbase]
    IN  [utxo |-> utxo, amount |-> amount, height |-> height,
         pubkey |-> pubkey, is_coinbase |-> is_coinbase,
         stake_id |-> sha256d(Stake_serialize(fields))]

\* Stake.get_hash
Stake_get_hash(s, commitment) == sha256d(commitment \o Stake_serialize(s))

compute_limited_proof_id(sequence, expiration_time, stakes, payout_script_pubkey) ==
    sha256d(LE(sequence, 8) \o LE(expiration_time, 8)
            \o serialize_blob(payout_script_pubkey)
            \o serialize_sequence(List([i \in 1..Len(stakes) |-> Stake_serialize(stakes[i])])))

\* compute_proof_id committing the limited id to the master key as well.
compute_proof_id_ltd_with_master(sequence, expiration_time, stakes, master, payout_script_pubkey) ==
    LET ltd_id == sha256d(LE(sequence, 8) \o LE(expiration_time, 8)
                          \o PublicKey_serialize(master)
                          \o serialize_blob(payout_script_pubkey)
                          \o serialize_sequence(List([i \in 1..Len(stakes) |-> Stake_serialize(stakes[i])])))
    IN  <<ltd_id, sha256d(UInt256_serialize(ltd_id) \o PublicKey_serialize(master))>>

\* compute_proof_id leaving the master key out of the proof id.
compute_proof_id_without_master(sequence, expiration_time, stakes, master, payout_script_pubkey) ==
    LET ltd_id == compute_limited_proof_id(sequence, expiration_time, stakes,
                                           payout_script_pubkey)
    IN  <<ltd_id, sha256d(UInt256_serialize(ltd_id))>>

\* compute_proof_id returns the pair (limited proof id, proof id).
compute_proof_id(sequence, expiration_time, stakes, master, payout_script_pubkey) ==
    LET ltd_id == compute_limited_proof_id(sequence, expiration_time, stakes,
                                           payout_script_pubkey)
    IN  <<ltd_id, sha256d(UInt256_serialize(ltd_id) \o PublicKey_serialize(master))>>

SignedStake_serialize(ss) == Stake_serialize(ss.stake) \o ss.sig

\* StakeSigner.sign
StakeSigner_sign(signer, commitment) ==
    [stake |-> signer.stake,
     sig |-> Key_sign_schnorr(signer.key, Stake_get_hash(signer.stake, commitment))]

\* Proof.__init__: the two ids are recomputed from the other fields.
Proof(sequence, expiration_time, master_pub, signed_stakes, payout_script_pubkey, signature) ==
    LET ids == compute_proof_id(sequence, expiration_time,
                                List([i \in 1..Len(signed_stakes) |-> signed_stakes[i].stake]),
                                master_pub, payout_script_pubkey)
    IN  [sequence |-> sequence, expiration_time |-> expiration_time,
         master_pub |-> master_pub, stakes |-> signed_stakes,
         payout_script_pubkey |-> payout_script_pubkey, signature |-> signature,
         limitedid |-> ids[1], proofid |-> ids[2]]

\* Proof.serialize in the order of the limited id's preimage: the payout
\* script before the stakes.
Proof_serialize_payout_first(p) ==
    LE(p.sequence, 8) \o LE(p.expiration_time, 8)
        \o PublicKey_serialize(p.master_pub)
        \o serialize_blob(p.payout_script_pubkey)
        \o serialize_sequence(List([i \in 1..Len(p.stakes) |-> SignedStake_serialize(p.stakes[i])]))
        \o p.signature

Proof_serialize(p) ==
    LE(p.sequence, 8) \o LE(p.expiration_time, 8)
        \o PublicKey_serialize(p.master_pub)
        \o serialize_sequence(List([i \in 1..Len(p.stakes) |-> SignedStake_serialize(p.stakes[i])]))
        \o serialize_blob(p.payout_script_pubkey)
        \o p.signature

(***************************************************************************)
(* ProofBuilder                                                            *)
(***************************************************************************)

\* A sort that compares the raw bytes of the stake ids, first byte first.
RECURSIVE InsertByRawBytes(_, _)
InsertByRawBytes(sorted, x) ==
    IF sorted = <<>> THEN <<x>>
    ELSE IF \E i \in 1..WIDTH :
              /\ x.stake.stake_id[i] < Head(sorted).stake.stake_id[i]
              /\ \A j \in 1..(i - 1) :
                    x.stake.stake_id[j] = Head(sorted).stake.stake_id[j]
         THEN <<x>> \o sorted
         ELSE <<Head(sorted)>> \o InsertByRawBytes(Tail(sorted), x)

\* list.sort(key=lambda ss: ss.stake.stake_id): ascending under UInt256's
\* comparison and stable, so an element goes after the ones it is not below.
RECURSIVE InsertByStakeId(_, _)
InsertByStakeId(sorted, x) ==
    IF sorted = <<>> THEN <<x>>
    ELSE IF UInt256_lt(x.stake.stake_id, Head(sorted).stake.stake_id)
         THEN <<x>> \o sorted
         ELSE <<Head(sorted)>> \o InsertByStakeId(Tail(sorted), x)

RECURSIVE SortByStakeId(_)
SortByStakeId(l) ==
    IF l = <<>> THEN <<>>
    ELSE InsertByStakeId(SortByStakeId(SubSeq(l, 1, Len(l) - 1)), l[Len(l)])

\* ProofBuilder.__init__
ProofBuilder(sequence, expiration_time, master, payout_script_pubkey) ==
    [sequence |-> sequence, expiration_time |-> expiration_time,
     master |-> master, master_pub |-> Key_get_pubkey(master),
     payout_script_pubkey |-> payout_script_pubkey, stake_signers |-> <<>>]

\* add_utxo without the sort of line 294: the signers stay in call order.
add_utxo_signers_unsorted(self, u) ==
    LET privkey == deserialize_privkey(u.wif)
        utxo == [txid |-> u.txid, n |-> u.vout]
        stake == Stake(utxo, u.amount, u.height, Key_get_pubkey(privkey),
                       u.is_coinbase)
    IN  Append(self.stake_signers, [stake |-> stake, key |-> privkey])

\* add_utxo dropping a stake whose stake_id the builder already holds.
add_utxo_signers_dedup(self, u) ==
    LET privkey == deserialize_privkey(u.wif)
        utxo == [txid |-> u.txid, n |-> u.vout]
        stake == Stake(utxo, u.amount, u.height, Key_get_pubkey(privkey),
                       u.is_coinbase)
    IN  IF \E i \in 1..Len(self.stake_signers) :
              self.stake_signers[i].stake.stake_id = stake.stake_id
        THEN self.stake_signers
        ELSE SortByStakeId(Append(self.stake_signers,
                                  [stake |-> stake, key |-> privkey]))

\* add_utxo sorting the stakes and leaving the keys in call order.
add_utxo_signers_keys_apart(self, u) ==
    LET privkey == deserialize_privkey(u.wif)
        utxo == [txid |-> u.txid, n |-> u.vout]
        stake == Stake(utxo, u.amount, u.height, Key_get_pubkey(privkey),
                       u.is_coinbase)
        sorted == SortByStakeId(Append(self.stake_signers,
                                       [stake |-> stake, key |-> privkey]))
        keys == [i \in 1..Len(self.stake_signers) |-> self.stake_signers[i].key]
                    \o <<privkey>>
    IN  [i \in 1..Len(sorted) |-> [stake |-> sorted[i].stake, key |-> keys[i]]]

\* The stake_signers list of ProofBuilder.add_utxo after a call that does not
\* raise.
add_utxo_signers(self, u) ==
    LET privkey == deserialize_privkey(u.wif)
        utxo == [txid |-> u.txid, n |-> u.vout]
        stake == Stake(utxo, u.amount, u.height, Key_get_pubkey(privkey),
                       u.is_coinbase)
    IN  SortByStakeId(Append(self.stake_signers, [stake |-> stake, key |-> privkey]))

\* The exception ProofBuilder.add_utxo raises on these arguments, or "none".
add_utxo_raises(u) ==
    IF ~WifOk(u.wif) THEN "KeyDecodingError"
    ELSE IF ~Stake_packs([txid |-> u.txid, n |-> u.vout], u.amount, u.height,
                         u.is_coinbase)
         THEN "struct.error"
         ELSE "none"

\* The exception ProofBuilder.build raises (struct.pack("<Qq", ...) in
\* compute_limited_proof_id), or "none".
build_raises(self) ==
    IF FitsU64(self.sequence) /\ FitsI64(self.expiration_time)
    THEN "none" ELSE "struct.error"

\* build() signing the proof id instead of the limited proof id.
build_proof_signs_proofid(self) ==
    LET stakes == List([i \in 1..Len(self.stake_signers) |->
                            self.stake_signers[i].stake])
        ids == compute_proof_id(self.sequence, self.expiration_time, stakes,
                                self.master_pub, self.payout_script_pubkey)
        signature == Key_sign_schnorr(self.master, UInt256_serialize(ids[2]))
        stake_commitment ==
            sha256d(LE(self.expiration_time, 8) \o PublicKey_serialize(self.master_pub))
        signed_stakes == List([i \in 1..Len(self.stake_signers) |->
                                 StakeSigner_sign(self.stake_signers[i],
                                                  stake_commitment)])
    IN  Proof(self.sequence, self.expiration_time, self.master_pub, signed_stakes,
              self.payout_script_pubkey, signature)

\* ProofBuilder.build: the Proof it returns.
build_proof(self) ==
    LET stakes == List([i \in 1..Len(self.stake_signers) |->
                            self.stake_signers[i].stake])
        ids == compute_proof_id(self.sequence, self.expiration_time, stakes,
                                self.master_pub, self.payout_script_pubkey)
        signature == Key_sign_schnorr(self.master, UInt256_serialize(ids[1]))
        stake_commitment ==
            sha256d(LE(self.expiration_time, 8) \o PublicKey_serialize(self.master_pub))
        signed_stakes == List([i \in 1..Len(self.stake_signers) |->
                                 StakeSigner_sign(self.stake_signers[i],
                                                  stake_commitment)])
    IN  Proof(self.sequence, self.expiration_time, self.master_pub, signed_stakes,
              self.payout_script_pubkey, signature)

(***************************************************************************)
(* Inputs                                                                  *)
(***************************************************************************)

Utxo(txid, vout, amount, height, wif, is_coinbase) ==
    [txid |-> txid, vout |-> vout, amount |-> amount, height |-> height,
     wif |-> wif, is_coinbase |-> is_coinbase]

\* Arguments on which add_utxo succeeds.
GoodUtxos ==
    { Utxo(TxId(36, 183), 0, 10000, 672828, "wifA", FALSE),
      Utxo(TxId(55, 11), 7, 32911, 4266, "wifB", TRUE) }

\* Arguments on which add_utxo raises.
BadUtxos ==
    { Utxo(TxId(36, 183), 0, 10000, 672828, "notAWif", FALSE),
      Utxo(TxId(36, 183), -1, 10000, 672828, "wifA", FALSE),
      Utxo(TxId(36, 183), 0, 10000, -5, "wifA", TRUE) }

Utxos == GoodUtxos \cup BadUtxos

\* (sequence, expiration_time, payout_script_pubkey) of a builder: the default
\* empty payout script, and a negative expiration time with a script.
Settings ==
    { <<42, 1699999999, <<>> >>, <<300, -4129, <<118, 169, 136, 172>> >> }

MasterWifs == {"wifMaster1", "wifMaster2"}

NoProof == [none |-> TRUE]

(***************************************************************************)
(* The components that are not at work                                     *)
(***************************************************************************)

\* No DelegationBuilder has been constructed.
NoBuilder ==
    [origin |-> "none", limitedid |-> <<>>, master_pub |-> <<>>, levels |-> <<>>,
     running_hash |-> <<>>, authority |-> <<>>]

\* build() has not returned a Delegation.
NoDelegation ==
    [built |-> FALSE, limitedid |-> <<>>, master_pub |-> <<>>, levels |-> <<>>]

\* No call has been made on a delegation builder.
NoCall == [op |-> "none", d |-> 0, wif |-> "", pubkey |-> <<>>]

DelegIdle ==
    /\ dgb = [d \in Builders |-> NoBuilder]
    /\ dg = [d \in Builders |-> NoDelegation]
    /\ dcall = NoCall
    /\ dprev = NoBuilder

\* Transaction(None) after set_inputs([]): no inputs and no outputs.
Transaction == [inputs |-> <<>>, outputs |-> <<>>]

ConsIdle ==
    /\ coins = <<>>
    /\ selected = <<>>
    /\ max_tx_size = 0
    /\ transactions = <<>>
    /\ tx = Transaction
    /\ tx_size = 0
    /\ tx_amount = 0
    /\ pc = "idle"

WizardIdle ==
    /\ status = "NOT_STARTED"
    /\ events = <<>>
    /\ wizard_txs = <<>>
    /\ failed = "none"

HeightIdle ==
    /\ stake_height = [neg |-> FALSE, mag |-> <<>>]
    /\ stake_is_coinbase = FALSE
    /\ height_field = <<>>
    /\ height_raised = "none"

(***************************************************************************)
(* State machine                                                           *)
(***************************************************************************)

\* Two fresh builders with the same sequence, expiration time and payout
\* script; their master keys are the same or differ.
Init ==
    /\ \E c \in Settings, m \in MasterWifs :
          builder = [b \in Builders |->
                        ProofBuilder(c[1], c[2],
                                     deserialize_privkey(IF b = 1 THEN "wifMaster1" ELSE m),
                                     c[3])]
    /\ proof = [b \in Builders |-> NoProof]
    /\ added = [b \in Builders |-> <<>>]
    /\ built_from = [b \in Builders |-> <<>>]
    /\ raised = "none"
    /\ stream = BytesIO(<<>>)
    /\ wrote = NoValue
    /\ call = NoValue
    /\ ret = NoValue
    /\ reads = 0
    /\ bb = UInt256_null
    /\ DelegIdle /\ ConsIdle /\ WizardIdle /\ HeightIdle

\* add_utxo appending the signer before the stake is packed, so that a
\* struct.error leaves the signer in the list.
add_utxo_appends_first(b, u) ==
    /\ Len(added[b]) < MaxStakes
    /\ raised' = add_utxo_raises(u)
    /\ IF WifOk(u.wif)
       THEN builder' = [builder EXCEPT ![b].stake_signers =
                                          add_utxo_signers(builder[b], u)]
       ELSE UNCHANGED builder
    /\ IF add_utxo_raises(u) = "none"
       THEN added' = [added EXCEPT ![b] = Append(@, u)]
       ELSE UNCHANGED added
    /\ UNCHANGED <<proof, built_from, codec_vars, other_vars>>

\* builder[b].add_utxo(u.txid, u.vout, u.amount, u.height, u.wif, u.is_coinbase)
add_utxo(b, u) ==
    /\ Len(added[b]) < MaxStakes
    /\ raised' = add_utxo_raises(u)
    /\ IF add_utxo_raises(u) = "none"
       THEN /\ builder' = [builder EXCEPT ![b].stake_signers =
                                             add_utxo_signers(builder[b], u)]
            /\ added' = [added EXCEPT ![b] = Append(@, u)]
       ELSE UNCHANGED <<builder, added>>
    /\ UNCHANGED <<proof, built_from, codec_vars, other_vars>>

\* build() zeroing the private keys of its signers once the Proof is made.
build_wiping_keys(b) ==
    /\ proof[b] = NoProof \/ built_from[b] # added[b]
    /\ raised' = build_raises(builder[b])
    /\ proof' = [proof EXCEPT ![b] = build_proof(builder[b])]
    /\ built_from' = [built_from EXCEPT ![b] = added[b]]
    /\ builder' = [builder EXCEPT ![b].stake_signers =
                      [i \in 1..Len(@) |->
                          [@[i] EXCEPT !.key.keydata = [k \in 1..WIDTH |-> 0]]]]
    /\ UNCHANGED <<added, codec_vars, other_vars>>

\* build() handing its signers over to the Proof and keeping none.
build_consuming(b) ==
    /\ proof[b] = NoProof \/ built_from[b] # added[b]
    /\ raised' = build_raises(builder[b])
    /\ proof' = [proof EXCEPT ![b] = build_proof(builder[b])]
    /\ built_from' = [built_from EXCEPT ![b] = added[b]]
    /\ builder' = [builder EXCEPT ![b].stake_signers = <<>>]
    /\ UNCHANGED <<added, codec_vars, other_vars>>

\* proof[b] = builder[b].build().  A build() that repeats the previous one
\* returns an equal Proof and changes nothing: it is a stuttering step.
build(b) ==
    /\ proof[b] = NoProof \/ built_from[b] # added[b]
    /\ raised' = build_raises(builder[b])
    /\ IF build_raises(builder[b]) = "none"
       THEN /\ proof' = [proof EXCEPT ![b] = build_proof(builder[b])]
            /\ built_from' = [built_from EXCEPT ![b] = added[b]]
       ELSE UNCHANGED <<proof, built_from>>
    /\ UNCHANGED <<builder, added, codec_vars, other_vars>>

Next ==
    \/ \E b \in Builders, u \in Utxos : add_utxo(b, u)
    \/ \E b \in Builders : build(b)

Spec == Init /\ [][Next]_vars

(***************************************************************************)
(* Vocabulary of the properties                                            *)
(***************************************************************************)

Built(b) == proof[b] # NoProof

\* The stake a successful add_utxo call builds from its arguments.
StakeOf(u) ==
    Stake([txid |-> u.txid, n |-> u.vout], u.amount, u.height,
          Key_get_pubkey(deserialize_privkey(u.wif)), u.is_coinbase)

StakeIds(l) == List([i \in 1..Len(l) |-> l[i].stake.stake_id])

\* The stakes and the stake ids of a list of successful add_utxo calls.
CallStakes(calls) == List([i \in 1..Len(calls) |-> StakeOf(calls[i])])

CallIds(calls) == List([i \in 1..Len(calls) |-> StakeOf(calls[i]).stake_id])

Distinct(l) == \A i, j \in 1..Len(l) : i # j => l[i] # l[j]

Occurrences(l, x) == Cardinality({i \in 1..Len(l) : l[i] = x})

\* The two builders were constructed with the same arguments but, possibly,
\* the master key.
SameSettings ==
    /\ builder[1].sequence = builder[2].sequence
    /\ builder[1].expiration_time = builder[2].expiration_time
    /\ builder[1].payout_script_pubkey = builder[2].payout_script_pubkey

SameMaster == builder[1].master = builder[2].master

\* a < b for two blobs read as numbers whose last raw byte is the most
\* significant one.
ReversedLess(a, b) ==
    \E i \in 1..WIDTH : a[i] < b[i] /\ \A j \in (i + 1)..WIDTH : a[j] = b[j]

\* a < b in the order of the raw bytes, first byte first.
RawLess(a, b) ==
    \E i \in 1..WIDTH : a[i] < b[i] /\ \A j \in 1..(i - 1) : a[j] = b[j]

Ascending(ids) == \A i \in 1..(Len(ids) - 1) : ~ReversedLess(ids[i + 1], ids[i])

(***************************************************************************)
(* Properties of ProofBuilder                                              *)
(***************************************************************************)

\* C1: when both builders have the same sequence, expiration time, master key
\* and payout script and were given, in any two orders, the same UTXOs of
\* pairwise distinct stake ids, the two proofs built have the same
\* serialization, the same limitedid and the same proofid.
C1_OrderIndependence ==
    (/\ Built(1) /\ Built(2)
     /\ SameSettings /\ SameMaster
     /\ Distinct(CallIds(built_from[1])) /\ Distinct(CallIds(built_from[2]))
     /\ {built_from[1][i] : i \in 1..Len(built_from[1])}
            = {built_from[2][i] : i \in 1..Len(built_from[2])})
    => /\ Proof_serialize(proof[1]) = Proof_serialize(proof[2])
       /\ proof[1].limitedid = proof[2].limitedid
       /\ proof[1].proofid = proof[2].proofid

\* Two proofs built from the same two UTXOs added in opposite orders.
C1_Witness ==
    /\ Built(1) /\ Built(2) /\ SameSettings /\ SameMaster
    /\ Len(built_from[1]) = 2 /\ Distinct(CallIds(built_from[1]))
    /\ built_from[2] = <<built_from[1][2], built_from[1][1]>>
    /\ Len(proof[1].stakes) = 2 /\ Len(proof[2].stakes) = 2

\* C2: the stake_signers of every builder are in ascending order of stake_id
\* read with the last raw byte most significant, and the stakes of a returned
\* Proof are in that order too.
C2_StakesSorted ==
    \A b \in Builders :
        /\ Ascending(StakeIds(builder[b].stake_signers))
        /\ Built(b) => Ascending(StakeIds(proof[b].stakes))

\* A proof of two stakes whose ascending order is the opposite of the order
\* of their raw bytes and of the order they were added in.
C2_Witness ==
    \E b \in Builders :
        /\ Built(b) /\ Len(proof[b].stakes) = 2
        /\ ReversedLess(proof[b].stakes[1].stake.stake_id,
                        proof[b].stakes[2].stake.stake_id)
        /\ RawLess(proof[b].stakes[2].stake.stake_id,
                   proof[b].stakes[1].stake.stake_id)
        /\ proof[b].stakes[1].stake = StakeOf(built_from[b][2])

\* C3, as claimed: no Proof returned by build() holds two stakes of the same
\* stake_id, whatever add_utxo calls preceded it.
C3_NoDuplicateStakeIds ==
    \A b \in Builders : Built(b) => Distinct(StakeIds(proof[b].stakes))

\* C3, amended: a returned Proof holds each stake as many times as it was
\* added before the build, nothing being deduplicated; so its stake ids are
\* pairwise distinct exactly when those of the add_utxo calls were.
C3_OneStakePerCall ==
    \A b \in Builders :
        Built(b) =>
            LET held == StakeIds(proof[b].stakes)
                called == CallIds(built_from[b])
            IN  /\ Len(proof[b].stakes) = Len(built_from[b])
                /\ \A i \in 1..Len(called) :
                      Occurrences(held, called[i]) = Occurrences(called, called[i])
                /\ Distinct(held) <=> Distinct(called)

\* A proof built after the same UTXO was added twice with the same key.
C3_Witness ==
    \E b \in Builders :
        /\ Built(b) /\ Len(built_from[b]) = 2
        /\ built_from[b][1] = built_from[b][2]
        /\ Len(proof[b].stakes) = 2


\* C4, as claimed: once build() has returned, no later call changes the
\* builder's stake list or returns another Proof.
C4_SingleUse ==
    [][\A b \in Builders :
          Built(b) => /\ builder'[b].stake_signers = builder[b].stake_signers
                      /\ proof'[b] = proof[b]]_vars

\* C4, amended: build() leaves the builder as it was and there is no terminal
\* state: a step that returns a Proof keeps the stake list, the Proof holding
\* exactly its stakes, and after a build() a successful add_utxo still grows
\* the list by one stake, the Proof returned earlier staying as it was.
C4_BuilderStaysUsable ==
    [][\A b \in Builders :
          /\ proof'[b] # proof[b] =>
                /\ builder'[b] = builder[b]
                /\ [i \in 1..Len(proof'[b].stakes) |-> proof'[b].stakes[i].stake]
                       = [i \in 1..Len(builder[b].stake_signers) |->
                             builder[b].stake_signers[i].stake]
          /\ (Built(b) /\ added'[b] # added[b]) =>
                /\ Len(builder'[b].stake_signers) = Len(builder[b].stake_signers) + 1
                /\ proof'[b] = proof[b]]_vars

\* A builder that took one more UTXO after it had returned a Proof of one
\* stake.
C4_Witness ==
    \E b \in Builders :
        /\ Built(b) /\ Len(built_from[b]) = 1 /\ Len(proof[b].stakes) = 1
        /\ Len(added[b]) = 2 /\ Len(builder[b].stake_signers) = 2

\* The stake commitment of a Proof: Hash(LE64(expiration_time) ++ master key).
StakeCommitment(p) ==
    sha256d(LE(p.expiration_time, 8) \o <<Len(p.master_pub)>> \o p.master_pub)

C6_MasterSignsLimitedId ==
    \A b \in Builders :
        Built(b) =>
            proof[b].signature
                = schnorr_sign(builder[b].master.keydata, proof[b].limitedid)

\* A returned proof with a stake, whose two ids differ.
C6_Witness ==
    \E b \in Builders :
        /\ Built(b) /\ Len(proof[b].stakes) >= 1
        /\ proof[b].limitedid # proof[b].proofid
        /\ Len(proof[b].signature) = SigLen


\* The wire bytes of a byte string shorter than 253 bytes: its length, then it.
ShortBlob(bytes) == <<Len(bytes)>> \o bytes

\* The preimage of the limited id: sequence, expiration time, payout script,
\* then the stakes, without their signatures.
LimitedPreimage(p) ==
    LE(p.sequence, 8) \o LE(p.expiration_time, 8) \o ShortBlob(p.payout_script_pubkey)
        \o <<Len(p.stakes)>>
        \o Flatten(List([i \in 1..Len(p.stakes) |-> Stake_serialize(p.stakes[i].stake)]))

\* C7: limitedid is the hash of sequence, expiration time, payout script and
\* sorted stakes, and two builders that differ at most in their master key
\* and were given the same add_utxo calls return the same limitedid.
C7_LimitedIdWithoutMaster ==
    /\ \A b \in Builders :
          Built(b) => proof[b].limitedid = sha256d(LimitedPreimage(proof[b]))
    /\ (Built(1) /\ Built(2) /\ SameSettings /\ built_from[1] = built_from[2])
          => proof[1].limitedid = proof[2].limitedid

\* Two builders with different master keys that built from the same calls.
C7_Witness ==
    /\ Built(1) /\ Built(2) /\ SameSettings /\ ~SameMaster
    /\ proof[1].master_pub # proof[2].master_pub
    /\ built_from[1] = built_from[2] /\ Len(built_from[1]) = 2
    /\ Len(proof[1].stakes) = 2

\* C8: proofid is the hash of the limitedid followed by the serialized master
\* public key, and two proofs of the same limitedid and different master
\* public keys have different proofids.
C8_ProofIdFromLimitedIdAndMaster ==
    /\ \A b \in Builders :
          Built(b) =>
              proof[b].proofid
                  = sha256d(proof[b].limitedid \o ShortBlob(proof[b].master_pub))
    /\ (Built(1) /\ Built(2) /\ proof[1].limitedid = proof[2].limitedid
          /\ proof[1].master_pub # proof[2].master_pub)
          => proof[1].proofid # proof[2].proofid

\* Two proofs of the same limitedid under different master public keys.
C8_Witness ==
    /\ Built(1) /\ Built(2)
    /\ proof[1].limitedid = proof[2].limitedid
    /\ proof[1].master_pub # proof[2].master_pub
    /\ Len(proof[1].stakes) >= 1

Field(bytes, from, len) == SubSeq(bytes, from + 1, from + len)

\* The sum of the first n elements of a list of numbers.
RECURSIVE Sum(_, _)
Sum(l, n) == IF n = 0 THEN 0 ELSE Sum(l, n - 1) + l[n]

\* C10: Proof.serialize() is, in this order, sequence (8 bytes LE),
\* expiration_time (8 bytes LE), the master public key as a length-prefixed
\* blob, the stake count, each SignedStake as its Stake followed by its
\* 64-byte signature, the payout script as a length-prefixed blob and the
\* master signature; the preimage of limitedid has the payout script before
\* the stakes and neither the master key nor a signature.
C10_ProofWireOrder ==
    \A b \in Builders :
        Built(b) =>
            LET p == proof[b]
                ser == Proof_serialize(p)
                n == Len(p.stakes)
                stake_ser == List([i \in 1..n |-> Stake_serialize(p.stakes[i].stake)])
                signed_len == List([i \in 1..n |-> Len(stake_ser[i]) + SigLen])
                stakes_at == 16 + 1 + Len(p.master_pub) + 1
                payout_at == stakes_at + Sum(signed_len, n)
                sig_at == payout_at + 1 + Len(p.payout_script_pubkey)
            IN  /\ Field(ser, 0, 8) = LE(p.sequence, 8)
                /\ Field(ser, 8, 8) = LE(p.expiration_time, 8)
                /\ Field(ser, 16, 1 + Len(p.master_pub)) = ShortBlob(p.master_pub)
                /\ Field(ser, stakes_at - 1, 1) = <<n>>
                /\ \A i \in 1..n :
                      /\ Field(ser, stakes_at + Sum(signed_len, i - 1),
                               Len(stake_ser[i]))
                            = stake_ser[i]
                      /\ Field(ser, stakes_at + Sum(signed_len, i) - SigLen, SigLen)
                            = p.stakes[i].sig
                /\ Field(ser, payout_at, 1 + Len(p.payout_script_pubkey))
                      = ShortBlob(p.payout_script_pubkey)
                /\ Field(ser, sig_at, SigLen) = p.signature
                /\ Len(ser) = sig_at + SigLen
                /\ p.limitedid = sha256d(LimitedPreimage(p))

\* A serialized proof with two stakes and a payout script that is not empty.
C10_Witness ==
    \E b \in Builders :
        /\ Built(b) /\ Len(proof[b].stakes) = 2
        /\ Len(proof[b].payout_script_pubkey) > 0
        /\ proof[b].stakes[1].stake # proof[b].stakes[2].stake


(***************************************************************************)
(* Key material                                                            *)
(***************************************************************************)

\* The private keys a builder holds for its stakes, between two calls.
KeysHeld(b) ==
    {builder[b].stake_signers[i].key.keydata : i \in 1..Len(builder[b].stake_signers)}

\* The private keys of the successful add_utxo calls of a builder.
KeysGiven(b) ==
    {deserialize_privkey(added[b][j].wif).keydata : j \in 1..Len(added[b])}

\* C11, as claimed: between calls, before build() and after it has returned,
\* a builder holds no stake private key.
C11_NoKeyOutsideBuild == \A b \in Builders : KeysHeld(b) = {}

\* C11, amended: a builder holds the private key of every successful
\* add_utxo call from that call on, paired with the stake of that call;
\* build() does not clear them, and they are still held after it returned.
C11_KeysRetained ==
    \A b \in Builders :
        LET given == CallStakes(added[b])
        IN  /\ KeysHeld(b) = KeysGiven(b)
            /\ Len(builder[b].stake_signers) = Len(added[b])
            /\ \A i \in 1..Len(builder[b].stake_signers) :
                  \E j \in 1..Len(added[b]) :
                      /\ builder[b].stake_signers[i].stake = given[j]
                      /\ builder[b].stake_signers[i].key
                            = deserialize_privkey(added[b][j].wif)

\* A builder that has returned a Proof of two stakes of different keys and
\* still holds both keys.
C11_Witness ==
    \E b \in Builders :
        /\ Built(b) /\ built_from[b] = added[b] /\ Len(proof[b].stakes) = 2
        /\ Cardinality(KeysHeld(b)) = 2


(***************************************************************************)
(* Codec of electroncash/avalanche/serialize.py                            *)
(***************************************************************************)

\* A Python int, of any size: its sign and the base-256 digits of its
\* magnitude, least significant first, the last digit not zero.
PyInt(neg, mag) == [neg |-> neg, mag |-> mag]

\* The digits d without the zeros at the most significant end.
RECURSIVE Norm(_)
Norm(d) ==
    IF d = <<>> THEN <<>>
    ELSE IF d[Len(d)] = 0 THEN Norm(SubSeq(d, 1, Len(d) - 1)) ELSE d

\* struct.unpack of one unsigned little-endian field.
Unpack(bytes) == PyInt(FALSE, Norm(bytes))

\* The Python int of a number of the model.
Small(v) == IF v < 0 THEN PyInt(TRUE, Norm(LE(-v, 4))) ELSE Unpack(LE(v, 4))

MagLess(x, y) ==
    \/ Len(x) < Len(y)
    \/ /\ Len(x) = Len(y)
       /\ \E i \in 1..Len(x) : x[i] < y[i] /\ \A j \in (i + 1)..Len(x) : x[j] = y[j]

\* a < b on Python ints.
IntLess(a, b) ==
    IF a.neg # b.neg THEN a.neg
    ELSE IF a.neg THEN MagLess(b.mag, a.mag) ELSE MagLess(a.mag, b.mag)

\* 2^(8 n), as in 0x10000, 0x100000000 and 0x10000000000000000.
TwoTo8(n) == PyInt(FALSE, List([i \in 1..(n + 1) |-> IF i = n + 1 THEN 1 ELSE 0]))

\* struct.pack of one unsigned little-endian field of n bytes, for a value
\* within its range.
Pack(v, n) == List([i \in 1..n |-> IF i <= Len(v.mag) THEN v.mag[i] ELSE 0])

\* The exception write_compact_size raises, or "none".  The two assert
\* statements are compiled out under python -O, where struct.pack rejects
\* the same values: asserts tells whether they are compiled in.
avalanche_write_compact_size_raises(nsize, asserts) ==
    IF IntLess(nsize, Small(0)) \/ ~IntLess(nsize, TwoTo8(8))
    THEN IF asserts THEN "AssertionError" ELSE "struct.error"
    ELSE "none"

\* write_compact_size marking every value of two bytes or more with 253.
avalanche_write_compact_size_marker_253(nsize) ==
    IF IntLess(nsize, Small(253)) THEN Pack(nsize, 1)
    ELSE IF IntLess(nsize, TwoTo8(2)) THEN <<253>> \o Pack(nsize, 2)
    ELSE IF IntLess(nsize, TwoTo8(4)) THEN <<253>> \o Pack(nsize, 4)
    ELSE <<253>> \o Pack(nsize, 8)

\* write_compact_size of serialize.py, when it does not raise.
avalanche_write_compact_size(nsize) ==
    IF IntLess(nsize, Small(253)) THEN Pack(nsize, 1)
    ELSE IF IntLess(nsize, TwoTo8(2)) THEN <<253>> \o Pack(nsize, 2)
    ELSE IF IntLess(nsize, TwoTo8(4)) THEN <<254>> \o Pack(nsize, 4)
    ELSE <<255>> \o Pack(nsize, 8)

\* stream.read(n): the bytes read, fewer than n at the end of the data.
stream_read(s, n) ==
    SubSeq(s.data, s.pos + 1, IF s.pos + n < Len(s.data) THEN s.pos + n ELSE Len(s.data))

\* The outcome of a call on a stream: the exception raised or "none", the
\* value returned and the position the stream is left at.
Outcome(exc, value, pos) == [raised |-> exc, value |-> value, pos |-> pos]

\* struct.unpack(fmt, stream.read(n)) for one unsigned field of n bytes:
\* struct.error when fewer than n bytes were read.
read_unpack(s, n) ==
    LET bytes == stream_read(s, n)
    IN  IF Len(bytes) < n
        THEN Outcome("struct.error", NoValue, s.pos + Len(bytes))
        ELSE Outcome("none", Unpack(bytes), s.pos + n)

\* read_compact_size taking four bytes after the marker 253.
read_compact_size_253_reads_4(s) ==
    LET nit == read_unpack(s, 1)
        rest == [s EXCEPT !.pos = nit.pos]
    IN  IF nit.raised # "none" THEN nit
        ELSE IF nit.value = Small(253) THEN read_unpack(rest, 4)
        ELSE IF nit.value = Small(254) THEN read_unpack(rest, 4)
        ELSE IF nit.value = Small(255) THEN read_unpack(rest, 8)
        ELSE nit

read_compact_size(s) ==
    LET nit == read_unpack(s, 1)
        rest == [s EXCEPT !.pos = nit.pos]
    IN  IF nit.raised # "none" THEN nit
        ELSE IF nit.value = Small(253) THEN read_unpack(rest, 2)
        ELSE IF nit.value = Small(254) THEN read_unpack(rest, 4)
        ELSE IF nit.value = Small(255) THEN read_unpack(rest, 8)
        ELSE nit


\* The number of the model a Python int below 2^24 stands for.
ToNumber(v) ==
    Pack(v, 3)[1] + 256 * Pack(v, 3)[2] + 65536 * Pack(v, 3)[3]

\* stream.read(size) for a Python int size: BytesIO rejects a size that does
\* not fit a signed 64-bit integer and returns the bytes left when there are
\* fewer than size of them.
read_bytes(s, size) ==
    IF ~IntLess(size, PyInt(FALSE, [i \in 1..8 |-> IF i = 8 THEN 128 ELSE 0]))
    THEN Outcome("OverflowError", NoValue, s.pos)
    ELSE LET bytes == IF Len(size.mag) > 3 THEN stream_read(s, Len(s.data))
                      ELSE stream_read(s, ToNumber(size))
         IN  Outcome("none", bytes, s.pos + Len(bytes))

avalanche_serialize_blob(blob) ==
    avalanche_write_compact_size(Small(Len(blob))) \o blob

deserialize_blob(s) ==
    LET size == read_compact_size(s)
    IN  IF size.raised # "none" THEN size
        ELSE read_bytes([s EXCEPT !.pos = size.pos], size.value)

\* PublicKey.__init__
PublicKey(keydata) == [keydata |-> keydata]

avalanche_PublicKey_serialize(k) == avalanche_serialize_blob(k.keydata)

PublicKey_deserialize(s) ==
    LET keydata == deserialize_blob(s)
    IN  IF keydata.raised # "none" THEN keydata
        ELSE Outcome("none", PublicKey(keydata.value), keydata.pos)

\* UInt256.deserialize: the next WIDTH bytes of the stream as a blob, an
\* error when the stream holds fewer.
UInt256_deserialize(s) ==
    LET bytes == stream_read(s, WIDTH)
    IN  IF Len(bytes) < WIDTH
        THEN Outcome("DeserializationError", NoValue, s.pos + Len(bytes))
        ELSE Outcome("none", bytes, s.pos + WIDTH)

\* COutPoint.__init__
COutPoint(txid, n) == [txid |-> txid, n |-> n]

\* The exception COutPoint.serialize raises, or "none": struct.pack("<I", n).
avalanche_COutPoint_serialize_raises(o) ==
    IF o.n.neg \/ Len(o.n.mag) > 4 THEN "struct.error" ELSE "none"

avalanche_COutPoint_serialize(o) == UInt256_serialize(o.txid) \o Pack(o.n, 4)

\* COutPoint.deserialize reading the index before the transaction id.
COutPoint_deserialize_index_first(s) ==
    LET n == read_unpack(s, 4)
        txid == UInt256_deserialize([s EXCEPT !.pos = n.pos])
    IN  IF n.raised # "none" THEN n
        ELSE IF txid.raised # "none" THEN txid
        ELSE Outcome("none", COutPoint(txid.value, n.value), txid.pos)

COutPoint_deserialize(s) ==
    LET txid == UInt256_deserialize(s)
        n == read_unpack([s EXCEPT !.pos = txid.pos], 4)
    IN  IF txid.raised # "none" THEN txid
        ELSE IF n.raised # "none" THEN n
        ELSE Outcome("none", COutPoint(txid.value, n.value), n.pos)

\* obj.serialize() for an element of class cls.
cls_serialize(cls, obj) ==
    IF cls = "PublicKey" THEN avalanche_PublicKey_serialize(obj)
    ELSE avalanche_COutPoint_serialize(obj)

\* cls.deserialize(stream)
cls_deserialize(cls, s) ==
    IF cls = "PublicKey" THEN PublicKey_deserialize(s) ELSE COutPoint_deserialize(s)

avalanche_serialize_sequence(cls, seq) ==
    avalanche_write_compact_size(Small(Len(seq)))
        \o Flatten(List([i \in 1..Len(seq) |-> cls_serialize(cls, seq[i])]))

\* The loop of deserialize_sequence: the objects read so far, the stream at s.
RECURSIVE deserialize_loop(_, _, _, _)
deserialize_loop(s, cls, size, objs) ==
    IF ~IntLess(Small(Len(objs)), size) THEN Outcome("none", objs, s.pos)
    ELSE LET obj == cls_deserialize(cls, s)
         IN  IF obj.raised # "none" THEN Outcome(obj.raised, NoValue, obj.pos)
             ELSE deserialize_loop([s EXCEPT !.pos = obj.pos], cls, size,
                                   Append(objs, obj.value))

\* deserialize_sequence reading one element more than the size declares.
deserialize_sequence_one_more(s, cls) ==
    LET size == read_compact_size(s)
    IN  IF size.raised # "none" THEN size
        ELSE deserialize_loop([s EXCEPT !.pos = size.pos], cls,
                              Unpack(LE(ToNumber(size.value) + 1, 4)), <<>>)

deserialize_sequence(s, cls) ==
    LET size == read_compact_size(s)
    IN  IF size.raised # "none" THEN size
        ELSE deserialize_loop([s EXCEPT !.pos = size.pos], cls, size.value, <<>>)


(***************************************************************************)
(* Hexadecimal text.  A string of hex digits is the sequence of the values *)
(* of its characters: 0..15 for "0".."f" and 16 for any other character.   *)
(***************************************************************************)

\* bytes.hex(): two digits for a byte, the high one first.
bytes_hex(bytes) ==
    List([i \in 1..(2 * Len(bytes)) |->
            IF i % 2 = 1 THEN bytes[(i + 1) \div 2] \div 16 ELSE bytes[i \div 2] % 16])

\* Whether bytes.fromhex(h) raises ValueError.
bytes_fromhex_raises(h) ==
    IF Len(h) % 2 = 1 \/ \E i \in 1..Len(h) : h[i] > 15 THEN "ValueError" ELSE "none"

\* bytes.fromhex(h), when it does not raise.
bytes_fromhex(h) == List([i \in 1..(Len(h) \div 2) |-> 16 * h[2 * i - 1] + h[2 * i]])

\* SerializableObject.to_hex
to_hex(cls, obj) == bytes_hex(cls_serialize(cls, obj))

\* SerializableObject.from_hex, inherited by COutPoint.
from_hex(cls, hex_str) ==
    IF bytes_fromhex_raises(hex_str) # "none"
    THEN Outcome(bytes_fromhex_raises(hex_str), NoValue, 0)
    ELSE cls_deserialize(cls, BytesIO(bytes_fromhex(hex_str)))

\* PublicKey.from_hex, which overrides it: the text is the hex of the key
\* data alone, and the length is put before it.
PublicKey_from_hex(hex_str) ==
    IF bytes_fromhex_raises(hex_str) # "none"
    THEN Outcome(bytes_fromhex_raises(hex_str), NoValue, 0)
    ELSE LET data == bytes_fromhex(hex_str)
         IN  PublicKey_deserialize(
                 BytesIO(avalanche_write_compact_size(Small(Len(data))) \o data))

\* cls.from_hex(hex_str)
cls_from_hex(cls, hex_str) ==
    IF cls = "PublicKey" THEN PublicKey_from_hex(hex_str) ELSE from_hex(cls, hex_str)

\* data[::-1]
Reversed(bytes) == List([i \in 1..Len(bytes) |-> bytes[Len(bytes) + 1 - i]])

\* BaseBlob.get_hex: the hex of the bytes in reversed order.
UInt256_get_hex(a) == bytes_hex(Reversed(a))

\* BaseBlob.set_hex keeping the bytes in the order of the text.
UInt256_set_hex_unreversed(hex_str) == bytes_fromhex(hex_str)

\* BaseBlob.set_hex: the blob whose get_hex is hex_str.
UInt256_set_hex(hex_str) == Reversed(bytes_fromhex(hex_str))


(***************************************************************************)
(* The codec at work: values are serialized, streams are opened on the     *)
(* bytes made or on bytes received, and decoders read from the stream.     *)
(***************************************************************************)

\* Longest list given to serialize_sequence.
MaxSeqLen == 2

\* Largest number of decoder calls on one stream.
MaxReads == 2

\* The Python int whose digits are all 255, on n bytes: 2^(8 n) - 1.
AllOnes(n) == PyInt(FALSE, List([i \in 1..n |-> 255]))

\* Sizes around every boundary of the encoding, and outside its range.
Sizes ==
    { Small(0), Small(1), Small(252), Small(253), Small(254), Small(255),
      Small(256), Small(65535), Small(65536), Small(65537), AllOnes(4),
      TwoTo8(4), PyInt(FALSE, <<1, 0, 0, 0, 1>>), AllOnes(8),
      TwoTo8(8), PyInt(FALSE, <<7, 0, 0, 0, 0, 0, 0, 0, 1>>),
      Small(-1), Small(-253) }

\* Byte strings: empty, short, and of the first length that takes a marker.
Blobs ==
    { <<>>, <<170>>, <<1, 2, 3>>, List([i \in 1..252 |-> i]), List([i \in 1..253 |-> i % 251]) }

\* Public keys: a compressed one, an uncompressed one and two of other sizes.
Keys ==
    { PublicKey(Key_get_pubkey(deserialize_privkey("wifA"))),
      PublicKey(Key_get_pubkey(deserialize_privkey("wifB"))),
      PublicKey(<<2, 171>>), PublicKey(<<>>) }

\* Outpoints whose index fits 32 bits, and two whose index does not.
Outpoints ==
    { COutPoint(TxId(36, 183), Small(0)), COutPoint(TxId(55, 11), Small(7)),
      COutPoint(TxId(0, 0), AllOnes(4)) }

BadOutpoints == { COutPoint(TxId(36, 183), TwoTo8(4)), COutPoint(TxId(36, 183), Small(-1)) }

Classes == {"PublicKey", "COutPoint"}

Objects(cls) == IF cls = "PublicKey" THEN Keys ELSE Outpoints

\* The lists of at most n objects of a class.
RECURSIVE Lists(_, _)
Lists(cls, n) ==
    IF n = 0 THEN {<<>>}
    ELSE Lists(cls, n - 1)
            \cup {Append(l, o) : l \in {x \in Lists(cls, n - 1) : Len(x) = n - 1},
                                 o \in Objects(cls)}

\* The beginnings of a byte string, itself included.
Prefixes(bytes) == {SubSeq(bytes, 1, k) : k \in 0..Len(bytes)}

\* Bytes received: encodings with a larger marker than needed, encodings cut
\* short, sizes larger than what follows, and sequences cut in an element.
Streams ==
    { <<>>, <<252>>, <<253>>, <<253, 1>>, <<253, 1, 0>>, <<253, 252, 0>>,
      <<253, 253, 0>>, <<254, 1, 0>>, <<254, 255, 255, 0, 0>>,
      <<254, 0, 0, 1, 0>>, <<255, 1, 0, 0, 0, 0, 0, 0>>,
      <<255, 255, 255, 255, 255, 0, 0, 0, 0>>, <<255, 0, 0, 0, 0, 1, 0, 0, 0>>,
      <<255, 0, 0, 0, 0, 0, 0, 0, 128, 5>>,
      <<0>>, <<2, 170>>, <<2, 170, 187>>, <<2, 170, 187, 204>>, <<5, 170, 187>>,
      <<253, 3, 0, 1, 2>>, <<254, 0, 0, 0, 1, 7>>,
      <<2, 1, 170, 5, 187>>, <<2, 1, 170>>, <<1, 0, 1, 0>>, <<3, 0, 0>> }
      \cup Prefixes(avalanche_serialize_sequence(
                        "COutPoint", <<COutPoint(TxId(36, 183), Small(0)),
                                       COutPoint(TxId(55, 11), Small(7))>>))
      \cup { <<3>> \o avalanche_COutPoint_serialize(o) : o \in Outpoints }

\* Hex text received: the to_hex() of keys and outpoints, the hex of the data
\* of a key, an odd number of digits and a character that is no digit.
HexTexts ==
    { to_hex("PublicKey", k) : k \in Keys }
        \cup { to_hex("COutPoint", o) : o \in Outpoints }
        \cup { bytes_hex(k.keydata) : k \in Keys }
        \cup { <<0, 2, 10>>, <<0, 2, 16, 11>>, <<0, 5, 10, 11>> }

\* A call: the operation, the class it is about, its argument, and for a
\* decoder the position of the stream before it.
Call(op, cls, arg, pos) == [op |-> op, cls |-> cls, arg |-> arg, pos |-> pos]

Serializers ==
    {"write_compact_size", "serialize_blob", "serialize", "serialize_sequence"}


\* The state before any codec call.
CodecInit ==
    /\ builder = [b \in Builders |->
                     ProofBuilder(42, 1699999999, deserialize_privkey("wifMaster1"),
                                  <<>>)]
    /\ proof = [b \in Builders |-> NoProof]
    /\ added = [b \in Builders |-> <<>>]
    /\ built_from = [b \in Builders |-> <<>>]
    /\ raised = "none"
    /\ stream = BytesIO(<<>>)
    /\ wrote = NoValue
    /\ call = NoValue
    /\ ret = NoValue
    /\ reads = 0
    /\ bb = UInt256_null
    /\ DelegIdle /\ ConsIdle /\ WizardIdle /\ HeightIdle

\* No stream has been opened yet: a run serializes or receives bytes, opens
\* one stream on them and reads it.
NoStream == stream = BytesIO(<<>>) /\ reads = 0

\* ret = write_compact_size(nsize): it returns bytes or raises, and reads no
\* stream
write_compact_size_call(nsize, asserts) ==
    LET exc == avalanche_write_compact_size_raises(nsize, asserts)
    IN  /\ NoStream
        /\ call' = Call("write_compact_size", "", nsize, 0)
        /\ raised' = exc
        /\ ret' = Returns(exc, "bytes", avalanche_write_compact_size(nsize))
        /\ UNCHANGED <<stream, wrote, reads, bb, builder_vars, other_vars>>

\* ret = serialize_blob(blob)
serialize_blob_call(blob) ==
    LET exc == "none"
    IN  /\ NoStream
        /\ call' = Call("serialize_blob", "", blob, 0)
        /\ raised' = exc
        /\ ret' = Returns(exc, "bytes", avalanche_serialize_blob(blob))
        /\ UNCHANGED <<stream, wrote, reads, bb, builder_vars, other_vars>>

\* ret = obj.serialize() for a PublicKey or a COutPoint
serialize_call(cls, obj) ==
    LET exc == IF cls = "COutPoint" THEN avalanche_COutPoint_serialize_raises(obj)
               ELSE "none"
    IN  /\ NoStream
        /\ call' = Call("serialize", cls, obj, 0)
        /\ raised' = exc
        /\ ret' = Returns(exc, "bytes", cls_serialize(cls, obj))
        /\ UNCHANGED <<stream, wrote, reads, bb, builder_vars, other_vars>>

\* ret = serialize_sequence(seq) for a list of objects of one class
serialize_sequence_call(cls, seq) ==
    LET exc == "none"
    IN  /\ NoStream
        /\ call' = Call("serialize_sequence", cls, seq, 0)
        /\ raised' = exc
        /\ ret' = Returns(exc, "bytes", avalanche_serialize_sequence(cls, seq))
        /\ UNCHANGED <<stream, wrote, reads, bb, builder_vars, other_vars>>

\* ret = obj.to_hex()
to_hex_call(cls, obj) ==
    LET exc == "none"
    IN  /\ NoStream
        /\ call' = Call("to_hex", cls, obj, 0)
        /\ raised' = exc
        /\ ret' = Returns(exc, "str", to_hex(cls, obj))
        /\ UNCHANGED <<stream, wrote, reads, bb, builder_vars, other_vars>>

\* stream = BytesIO(data) on bytes received
BytesIO_call(data) ==
    /\ call = NoValue
    /\ stream' = BytesIO(data)
    /\ wrote' = NoValue
    /\ call' = Call("BytesIO", "", data, 0)
    /\ ret' = NoValue
    /\ raised' = "none"
    /\ UNCHANGED <<reads, bb, builder_vars, other_vars>>

\* stream = BytesIO(ret + more) on the bytes the last call serialized, alone
\* or followed by bytes that are not part of them
BytesIO_of_ret(more) ==
    /\ NoStream /\ call # NoValue /\ call.op \in Serializers /\ raised = "none"
    /\ stream' = BytesIO(ret.value \o more)
    /\ wrote' = [op |-> call.op, cls |-> call.cls, value |-> call.arg,
                 len |-> Len(ret.value)]
    /\ call' = Call("BytesIO", "", ret.value \o more, 0)
    /\ ret' = NoValue
    /\ raised' = "none"
    /\ UNCHANGED <<reads, bb, builder_vars, other_vars>>

\* A stream is open and may be read once more.
Reading ==
    /\ call # NoValue /\ call.op \notin Serializers \cup {"to_hex", "from_hex"}
    /\ reads < MaxReads

\* ret = read_compact_size(stream): it moves the stream and returns or raises
read_compact_size_call ==
    LET outcome == read_compact_size(stream)
    IN  /\ Reading
        /\ reads' = reads + 1
        /\ call' = Call("read_compact_size", "", NoValue, stream.pos)
        /\ raised' = outcome.raised
        /\ ret' = Returns(outcome.raised, "int", outcome.value)
        /\ stream' = [stream EXCEPT !.pos = outcome.pos]
        /\ UNCHANGED <<wrote, bb, builder_vars, other_vars>>

\* ret = deserialize_blob(stream)
deserialize_blob_call ==
    LET outcome == deserialize_blob(stream)
    IN  /\ Reading
        /\ reads' = reads + 1
        /\ call' = Call("deserialize_blob", "", NoValue, stream.pos)
        /\ raised' = outcome.raised
        /\ ret' = Returns(outcome.raised, "bytes", outcome.value)
        /\ stream' = [stream EXCEPT !.pos = outcome.pos]
        /\ UNCHANGED <<wrote, bb, builder_vars, other_vars>>

\* ret = cls.deserialize(stream) for PublicKey or COutPoint
deserialize_call(cls) ==
    LET outcome == cls_deserialize(cls, stream)
    IN  /\ Reading
        /\ reads' = reads + 1
        /\ call' = Call("deserialize", cls, NoValue, stream.pos)
        /\ raised' = outcome.raised
        /\ ret' = Returns(outcome.raised, cls, outcome.value)
        /\ stream' = [stream EXCEPT !.pos = outcome.pos]
        /\ UNCHANGED <<wrote, bb, builder_vars, other_vars>>

\* ret = deserialize_sequence(stream, cls)
deserialize_sequence_call(cls) ==
    LET outcome == deserialize_sequence(stream, cls)
    IN  /\ Reading
        /\ reads' = reads + 1
        /\ call' = Call("deserialize_sequence", cls, NoValue, stream.pos)
        /\ raised' = outcome.raised
        /\ ret' = Returns(outcome.raised, "list", outcome.value)
        /\ stream' = [stream EXCEPT !.pos = outcome.pos]
        /\ UNCHANGED <<wrote, bb, builder_vars, other_vars>>

\* ret = cls.from_hex(hex_str)
from_hex_call(cls, hex_str) ==
    LET outcome == cls_from_hex(cls, hex_str)
    IN  /\ NoStream
        /\ call' = Call("from_hex", cls, hex_str, 0)
        /\ raised' = outcome.raised
        /\ ret' = Returns(outcome.raised, cls, outcome.value)
        /\ UNCHANGED <<stream, wrote, reads, bb, builder_vars, other_vars>>

CodecNext ==
    \/ \E cls \in Classes, hex_str \in HexTexts : from_hex_call(cls, hex_str)
    \/ \E nsize \in Sizes, asserts \in BOOLEAN : write_compact_size_call(nsize, asserts)
    \/ \E blob \in Blobs : serialize_blob_call(blob)
    \/ \E cls \in Classes :
          \E obj \in Objects(cls) \cup (IF cls = "COutPoint" THEN BadOutpoints ELSE {}) :
              serialize_call(cls, obj)
    \/ \E cls \in Classes : \E seq \in Lists(cls, MaxSeqLen) :
          serialize_sequence_call(cls, seq)
    \/ \E cls \in Classes : \E obj \in Objects(cls) : to_hex_call(cls, obj)
    \/ \E data \in Streams : BytesIO_call(data)
    \/ \E more \in {<<>>, <<9>>} : BytesIO_of_ret(more)
    \/ read_compact_size_call
    \/ deserialize_blob_call
    \/ \E cls \in Classes : deserialize_call(cls)
    \/ \E cls \in Classes : deserialize_sequence_call(cls)

CodecSpec == CodecInit /\ [][CodecNext]_vars


(***************************************************************************)
(* Properties of the codec                                                 *)
(***************************************************************************)

\* The bytes the last decoder call consumed.
Consumed == SubSeq(stream.data, call.pos + 1, stream.pos)

\* The last call read, from its start, a stream opened on what op serialized.
ReadBack(op, decoder) ==
    /\ call # NoValue /\ wrote # NoValue
    /\ wrote.op = op /\ call.op = decoder /\ call.cls = wrote.cls
    /\ call.pos = 0 /\ reads = 1

\* The marker and the number of bytes after it that a size takes: the
\* smallest that fits.
MarkerOf(n) ==
    IF IntLess(n, Small(253)) THEN <<n.mag, 0>>
    ELSE IF IntLess(n, TwoTo8(2)) THEN <<<<253>>, 2>>
    ELSE IF IntLess(n, TwoTo8(4)) THEN <<<<254>>, 4>>
    ELSE <<<<255>>, 8>>

\* C12: write_compact_size fails for n < 0 and for n >= 2^64; otherwise it
\* returns one byte for n < 253, the marker 253 and 2 bytes for n < 2^16,
\* 254 and 4 bytes for n < 2^32, else 255 and 8 bytes, the bytes after the
\* marker being n least significant first; and read_compact_size of the bytes
\* written returns n and stops right after them.
C12_CompactSizeRoundTrip ==
    /\ (call # NoValue /\ call.op = "write_compact_size") =>
          LET n == call.arg
          IN  IF n.neg \/ Len(n.mag) > 8
              THEN raised # "none" /\ ret = NoValue
              ELSE /\ raised = "none"
                   /\ IF IntLess(n, Small(253))
                      THEN ret.value = (IF n.mag = <<>> THEN <<0>> ELSE n.mag)
                      ELSE /\ <<ret.value[1]>> = MarkerOf(n)[1]
                           /\ Len(ret.value) = 1 + MarkerOf(n)[2]
                           /\ Norm(Tail(ret.value)) = n.mag
    /\ ReadBack("write_compact_size", "read_compact_size") =>
          /\ raised = "none"
          /\ ret.value = wrote.value
          /\ stream.pos = wrote.len

\* 2^32 written on nine bytes and read back from a stream that holds one
\* byte more.
C12_Witness ==
    /\ ReadBack("write_compact_size", "read_compact_size")
    /\ wrote.value = TwoTo8(4) /\ wrote.len = 9 /\ Len(stream.data) = 10
    /\ ret = Value("int", TwoTo8(4)) /\ stream.pos = 9

\* C13: whenever read_compact_size returns a value, the bytes it consumed are
\* write_compact_size of that value.
C13_OneEncodingPerValue ==
    (call # NoValue /\ call.op = "read_compact_size" /\ raised = "none")
        => Consumed = avalanche_write_compact_size(ret.value)

\* The number of bytes read_compact_size needs at the position of the last
\* call: 1, 3, 5 or 9 by the marker, and 1 when there is no byte at all.
Needed ==
    IF call.pos >= Len(stream.data) THEN 1
    ELSE CASE stream.data[call.pos + 1] = 253 -> 3
           [] stream.data[call.pos + 1] = 254 -> 5
           [] stream.data[call.pos + 1] = 255 -> 9
           [] OTHER -> 1

\* C14: read_compact_size consumes exactly 1 byte for a marker below 253 and
\* exactly 3, 5 or 9 bytes for the markers 253, 254 and 255, and raises an
\* error, returning nothing, when the stream holds fewer bytes than that.
C14_ReadExactOrFail ==
    (call # NoValue /\ call.op = "read_compact_size") =>
        IF Len(stream.data) - call.pos >= Needed
        THEN raised = "none" /\ stream.pos = call.pos + Needed /\ ret # NoValue
        ELSE raised # "none" /\ ret = NoValue

\* The marker 254 with two bytes after it, where four are needed.
C14_Witness ==
    /\ call # NoValue /\ call.op = "read_compact_size" /\ call.pos = 0
    /\ stream.data = <<254, 1, 0>> /\ raised = "struct.error" /\ ret = NoValue


\* The size a blob declares at the position of the last call, as
\* read_compact_size reads it there.
Declared == read_compact_size([stream EXCEPT !.pos = call.pos])

\* The last call is deserialize_blob or PublicKey.deserialize.
BlobRead ==
    /\ call # NoValue
    /\ \/ call.op = "deserialize_blob"
       \/ call.op = "deserialize" /\ call.cls = "PublicKey"

\* C15: deserialize_blob and PublicKey.deserialize raise an error, returning
\* nothing, whenever the stream holds fewer bytes after the size than the
\* size declares.
C15_BlobTruncationFails ==
    (BlobRead /\ Declared.raised = "none"
        /\ IntLess(Small(Len(stream.data) - Declared.pos), Declared.value))
        => raised # "none" /\ ret = NoValue


\* The position right after the element of class cls that starts at pos, by
\* what the bytes declare (36 bytes for an outpoint, the size and as many
\* bytes as it says for a key), or -1 when the stream ends before it.
ElementEnd(cls, pos) ==
    IF pos = -1 THEN -1
    ELSE IF cls = "COutPoint"
    THEN IF pos + WIDTH + 4 <= Len(stream.data) THEN pos + WIDTH + 4 ELSE -1
    ELSE LET size == read_compact_size([stream EXCEPT !.pos = pos])
         IN  IF size.raised # "none" THEN -1
             ELSE IF IntLess(Small(Len(stream.data) - size.pos), size.value) THEN -1
             ELSE size.pos + ToNumber(size.value)

\* The position right after k elements that start at pos, or -1.
RECURSIVE ElementsEnd(_, _, _)
ElementsEnd(cls, pos, k) ==
    IF k = 0 THEN pos ELSE ElementEnd(cls, ElementsEnd(cls, pos, k - 1))

\* The position right after the sequence the last call was to read, or -1
\* when the stream ends before its last declared element does.
SequenceEnd ==
    IF Declared.raised # "none" THEN -1
    ELSE IF IntLess(Small(Len(stream.data) - Declared.pos), Declared.value) THEN -1
    ELSE ElementsEnd(call.cls, Declared.pos, ToNumber(Declared.value))

\* C16: deserialize_sequence returns as many elements as the count declares
\* and stops right after the last of them; when the stream ends before all
\* the declared elements do, it raises an error and returns no list.
C16_SequenceExactOrFail ==
    (call # NoValue /\ call.op = "deserialize_sequence") =>
        IF SequenceEnd = -1
        THEN raised # "none" /\ ret = NoValue
        ELSE /\ raised = "none"
             /\ Small(Len(ret.value)) = Declared.value
             /\ stream.pos = SequenceEnd


\* C17: read back from the bytes serialized, alone or with more bytes after
\* them, deserialize_blob returns the byte string, deserialize_sequence a
\* list equal to the list element by element, COutPoint.deserialize an
\* outpoint with the same txid and index, PublicKey.deserialize a key with
\* the same keydata; and each stops right after the bytes serialized.
C17_RoundTrip ==
    /\ ReadBack("serialize_blob", "deserialize_blob") =>
          raised = "none" /\ ret.value = wrote.value /\ stream.pos = wrote.len
    /\ ReadBack("serialize_sequence", "deserialize_sequence") =>
          /\ raised = "none"
          /\ Len(ret.value) = Len(wrote.value)
          /\ \A i \in 1..Len(wrote.value) : ret.value[i] = wrote.value[i]
          /\ stream.pos = wrote.len
    /\ ReadBack("serialize", "deserialize") =>
          /\ raised = "none"
          /\ IF call.cls = "COutPoint"
             THEN ret.value.txid = wrote.value.txid /\ ret.value.n = wrote.value.n
             ELSE ret.value.keydata = wrote.value.keydata
          /\ stream.pos = wrote.len

\* A list of two different outpoints read back from a stream that holds one
\* byte more than their serialization.
C17_Witness ==
    /\ ReadBack("serialize_sequence", "deserialize_sequence")
    /\ call.cls = "COutPoint" /\ Len(wrote.value) = 2
    /\ wrote.value[1] # wrote.value[2]
    /\ Len(stream.data) = wrote.len + 1 /\ wrote.len = 1 + 2 * (WIDTH + 4)
    /\ ret = Value("list", wrote.value) /\ stream.pos = wrote.len


\* The objects of the class of the last call whose to_hex() is the text the
\* call was given.
HexOf == {o \in Objects(call.cls) : to_hex(call.cls, o) = call.arg}

\* C18: to_hex() returns the hex digits of the serialized bytes, and from_hex
\* given the to_hex() of a key returns an equal key, given the to_hex() of an
\* outpoint an outpoint with the same txid and index.
C18_HexInverse ==
    /\ (call # NoValue /\ call.op = "to_hex") =>
          /\ raised = "none"
          /\ bytes_fromhex_raises(ret.value) = "none"
          /\ bytes_fromhex(ret.value) = cls_serialize(call.cls, call.arg)
    /\ (call # NoValue /\ call.op = "from_hex") =>
          \A o \in HexOf :
              /\ raised = "none"
              /\ IF call.cls = "COutPoint"
                 THEN ret.value.txid = o.txid /\ ret.value.n = o.n
                 ELSE ret.value.keydata = o.keydata


(***************************************************************************)
(* Blobs (uint256.BaseBlob, UInt256): one instance bb, constructed on raw  *)
(* bytes or set from hex text, then serialized, shown as hex and compared. *)
(***************************************************************************)

UInt256_eq(a, b) == BlobCompare(a, b, WIDTH) = 0

UInt256_gt(a, b) == BlobCompare(a, b, WIDTH) > 0

\* Raw bytes of a blob: first byte f, second byte m, last byte l, zeros
\* between.
RawBlob(f, m, l) ==
    List([i \in 1..WIDTH |->
            IF i = 1 THEN f ELSE IF i = 2 THEN m ELSE IF i = WIDTH THEN l ELSE 0])

\* Raw bytes a blob is constructed on: blobs that differ in the first byte,
\* in the last byte or in both, and the data of the tests.
BlobData ==
    { RawBlob(f, 1, l) : f \in {2, 3}, l \in {2, 3} }
        \cup { UInt256_null, RawBlob(1, 0, 2), RawBlob(0, 1, 3), RawBlob(0, 0, 1),
               RawBlob(0, 0, 2), RawBlob(222, 173, 190), RawBlob(0, 173, 222) }

\* Hex text of 2 * WIDTH digits given to set_hex: the get_hex() of blobs, and
\* "aa" "00" ... "00" "bb".
BlobHex ==
    { UInt256_get_hex(x) : x \in BlobData }
        \cup { List([i \in 1..(2 * WIDTH) |->
                       IF i <= 2 THEN 10 ELSE IF i > 2 * WIDTH - 2 THEN 11 ELSE 0]) }

\* Where the bytes of bb come from: the constructor's data or set_hex's text.
Origin(op, value) == [op |-> op, cls |-> "UInt256", value |-> value, len |-> WIDTH]

BlobInit ==
    /\ builder = [b \in Builders |->
                     ProofBuilder(42, 1699999999, deserialize_privkey("wifMaster1"),
                                  <<>>)]
    /\ proof = [b \in Builders |-> NoProof]
    /\ added = [b \in Builders |-> <<>>]
    /\ built_from = [b \in Builders |-> <<>>]
    /\ raised = "none"
    /\ stream = BytesIO(<<>>)
    /\ wrote = NoValue
    /\ call = NoValue
    /\ ret = NoValue
    /\ reads = 0
    /\ bb = UInt256_null
    /\ DelegIdle /\ ConsIdle /\ WizardIdle /\ HeightIdle

\* bb = UInt256(data)
UInt256_call(data) ==
    /\ bb' = data
    /\ wrote' = Origin("UInt256", data)
    /\ call' = Call("UInt256", "UInt256", data, 0)
    /\ ret' = NoValue
    /\ raised' = "none"
    /\ UNCHANGED <<stream, reads, builder_vars, other_vars>>

\* bb.set_hex(hex_str)
set_hex_call(hex_str) ==
    /\ bb' = UInt256_set_hex(hex_str)
    /\ wrote' = Origin("set_hex", hex_str)
    /\ call' = Call("set_hex", "UInt256", hex_str, 0)
    /\ ret' = NoValue
    /\ raised' = "none"
    /\ UNCHANGED <<stream, reads, builder_vars, other_vars>>

\* ret = bb.get_hex()
get_hex_call ==
    /\ call' = Call("get_hex", "UInt256", NoValue, 0)
    /\ ret' = Value("str", UInt256_get_hex(bb))
    /\ raised' = "none"
    /\ UNCHANGED <<bb, wrote, stream, reads, builder_vars, other_vars>>

\* ret = bb.serialize()
UInt256_serialize_call ==
    /\ call' = Call("serialize", "UInt256", NoValue, 0)
    /\ ret' = Value("bytes", UInt256_serialize(bb))
    /\ raised' = "none"
    /\ UNCHANGED <<bb, wrote, stream, reads, builder_vars, other_vars>>

\* ret = bb.compare(UInt256(other))
compare_call(other) ==
    /\ call' = Call("compare", "UInt256", other, 0)
    /\ ret' = Value("int", Small(BlobCompare(bb, other, WIDTH)))
    /\ raised' = "none"
    /\ UNCHANGED <<bb, wrote, stream, reads, builder_vars, other_vars>>

BlobNext ==
    \/ \E data \in BlobData : UInt256_call(data)
    \/ \E hex_str \in BlobHex : set_hex_call(hex_str)
    \/ get_hex_call
    \/ UInt256_serialize_call
    \/ \E other \in BlobData : compare_call(other)

BlobSpec == BlobInit /\ [][BlobNext]_vars


(***************************************************************************)
(* Properties of blobs                                                     *)
(***************************************************************************)

\* The last call compared bb with another blob.
Compared == call # NoValue /\ call.op = "compare"

\* C19: blob comparison is a total order that reads the bytes backwards:
\* compare() is 0 exactly when the raw bytes are equal, -1 exactly when bb is
\* the smaller number with the last raw byte the most significant, 1 exactly
\* when it is the larger; exactly one of <, ==, > holds, > is < with the
\* sides swapped, < is transitive, and the blob with the larger last raw byte
\* is the greater whatever the first bytes are.
C19_BlobTotalOrder ==
    Compared =>
        LET a == bb
            b == call.arg
        IN  /\ ret.value \in {Small(-1), Small(0), Small(1)}
            /\ (ret.value = Small(0)) <=> (a = b)
            /\ (ret.value = Small(-1)) <=> ReversedLess(a, b)
            /\ (ret.value = Small(1)) <=> ReversedLess(b, a)
            /\ Cardinality({r \in {"lt", "eq", "gt"} :
                               \/ r = "lt" /\ UInt256_lt(a, b)
                               \/ r = "eq" /\ UInt256_eq(a, b)
                               \/ r = "gt" /\ UInt256_gt(a, b)}) = 1
            /\ UInt256_eq(a, b) <=> (a = b)
            /\ UInt256_gt(a, b) <=> UInt256_lt(b, a)
            /\ \A c \in BlobData : UInt256_lt(a, b) /\ UInt256_lt(b, c) => UInt256_lt(a, c)
            /\ a[WIDTH] > b[WIDTH] => UInt256_gt(a, b) /\ ret.value = Small(1)

\* Raw 02 01 .. 03 compared with raw 03 01 .. 02: the first is the greater.
C19_Witness ==
    /\ Compared
    /\ bb = RawBlob(2, 1, 3) /\ call.arg = RawBlob(3, 1, 2)
    /\ ret = Value("int", Small(1))


\* The last call is op on the blob bb.
BlobCall(op) == call # NoValue /\ call.op = op /\ call.cls = "UInt256"

\* C20: serialize() returns the raw bytes the blob was constructed on, in
\* their order; get_hex() is two hex digits for each byte, the last raw byte
\* first; after set_hex(h), serialize() returns the bytes h spells, the last
\* one first; and set_hex of the get_hex() of a blob gives that blob.
C20_BlobHexReversed ==
    /\ BlobCall("serialize") =>
          /\ ret.value = bb
          /\ (wrote # NoValue /\ wrote.op = "UInt256") => ret.value = wrote.value
          /\ (wrote # NoValue /\ wrote.op = "set_hex") =>
                /\ Len(ret.value) = WIDTH
                /\ \A i \in 1..WIDTH :
                      ret.value[i] = 16 * wrote.value[2 * (WIDTH - i) + 1]
                                        + wrote.value[2 * (WIDTH - i) + 2]
    /\ BlobCall("get_hex") =>
          /\ Len(ret.value) = 2 * WIDTH
          /\ \A i \in 1..WIDTH :
                /\ ret.value[2 * i - 1] = bb[WIDTH + 1 - i] \div 16
                /\ ret.value[2 * i] = bb[WIDTH + 1 - i] % 16
          /\ (wrote # NoValue /\ wrote.op = "UInt256") => bb = wrote.value
    /\ BlobCall("set_hex") =>
          \A x \in BlobData : call.arg = UInt256_get_hex(x) => bb = x

\* set_hex("aa" "00" .. "00" "bb") followed by serialize(), which returns
\* bb 00 .. 00 aa.
C20_Witness ==
    /\ BlobCall("serialize")
    /\ wrote # NoValue /\ wrote.op = "set_hex"
    /\ wrote.value[1] = 10 /\ wrote.value[2 * WIDTH] = 11
    /\ ret.value[1] = 187 /\ ret.value[WIDTH] = 170


(***************************************************************************)
(* Delegation and DelegationBuilder (electroncash/avalanche/delegation.py) *)
(***************************************************************************)

\* Largest number of levels of a delegation.
MaxLevels == 2

\* Level: the delegated public key and the signature of its delegator.
Level(pubkey, sig) == [pubkey |-> pubkey, sig |-> sig]

\* Delegation: the limited proof id, the proof master key and the levels.
Delegation(limitedid, master_pub, levels) ==
    [built |-> TRUE, limitedid |-> limitedid, master_pub |-> master_pub,
     levels |-> levels]

\* The running hash after the levels, from the running hash h before them:
\* Hash(h.serialize() ++ delegated_pubkey.serialize()) level after level.
RECURSIVE ChainHash(_, _)
ChainHash(h, levels) ==
    IF levels = <<>> THEN h
    ELSE ChainHash(sha256d(UInt256_serialize(h)
                           \o PublicKey_serialize(Head(levels).pubkey)),
                   Tail(levels))

\* DelegationBuilder(limited_proofid, proof_master)
DelegationBuilder(ltd_id, master_pub) ==
    [origin |-> "ids", limitedid |-> ltd_id, master_pub |-> master_pub,
     levels |-> <<>>, running_hash |-> ltd_id, authority |-> master_pub]

\* DelegationBuilder.from_proof
DelegationBuilder_from_proof(p) ==
    [DelegationBuilder(p.limitedid, p.master_pub) EXCEPT !.origin = "proof"]

\* from_delegation starting the running hash over at the limited proof id.
DelegationBuilder_from_delegation_no_replay(d) ==
    [origin |-> "delegation", limitedid |-> d.limitedid,
     master_pub |-> d.master_pub, levels |-> d.levels,
     running_hash |-> d.limitedid,
     authority |-> IF d.levels = <<>> THEN d.master_pub
                   ELSE d.levels[Len(d.levels)].pubkey]

\* DelegationBuilder.from_delegation: the hash chain of the existing levels
\* is replayed and the last delegated key is the authority.
DelegationBuilder_from_delegation(d) ==
    [origin |-> "delegation", limitedid |-> d.limitedid,
     master_pub |-> d.master_pub, levels |-> d.levels,
     running_hash |-> ChainHash(d.limitedid, d.levels),
     authority |-> IF d.levels = <<>> THEN d.master_pub
                   ELSE d.levels[Len(d.levels)].pubkey]

\* add_level without the check of the delegator key.
add_level_raises_unchecked(self, delegator_key) == "none"

\* The exception add_level raises, or "none".
add_level_raises(self, delegator_key) ==
    IF Key_get_pubkey(delegator_key) # self.authority
    THEN "WrongDelegatorKeyError" ELSE "none"

\* add_level signing the running hash of before the level.
add_level_builder_signs_previous(self, delegator_key, delegated_pubkey) ==
    LET h == sha256d(UInt256_serialize(self.running_hash)
                     \o PublicKey_serialize(delegated_pubkey))
        sig == Key_sign_schnorr(delegator_key, UInt256_serialize(self.running_hash))
    IN  [self EXCEPT !.running_hash = h,
                     !.levels = Append(@, Level(delegated_pubkey, sig)),
                     !.authority = delegated_pubkey]

\* add_level leaving the authority with the delegator.
add_level_builder_keeps_authority(self, delegator_key, delegated_pubkey) ==
    LET h == sha256d(UInt256_serialize(self.running_hash)
                     \o PublicKey_serialize(delegated_pubkey))
        sig == Key_sign_schnorr(delegator_key, UInt256_serialize(h))
    IN  [self EXCEPT !.running_hash = h,
                     !.levels = Append(@, Level(delegated_pubkey, sig))]

\* The builder after an add_level that does not raise.
add_level_builder(self, delegator_key, delegated_pubkey) ==
    LET h == sha256d(UInt256_serialize(self.running_hash)
                     \o PublicKey_serialize(delegated_pubkey))
        sig == Key_sign_schnorr(delegator_key, UInt256_serialize(h))
    IN  [self EXCEPT !.running_hash = h,
                     !.levels = Append(@, Level(delegated_pubkey, sig)),
                     !.authority = delegated_pubkey]

\* DelegationBuilder.build: the Delegation it returns.
build_delegation(self) == Delegation(self.limitedid, self.master_pub, self.levels)

\* The keys of the delegators and the public keys delegated to.
DelegatorWifs == {"wifMaster1", "wifA", "wifB"}

DelegatedPubkeys ==
    {Key_get_pubkey(deserialize_privkey(w)) : w \in {"wifA", "wifB"}}

\* A proof of one stake, built by a ProofBuilder of the given master key.
ProofOf(master_wif, u) ==
    LET b0 == ProofBuilder(42, 1699999999, deserialize_privkey(master_wif), <<>>)
    IN  build_proof([b0 EXCEPT !.stake_signers = add_utxo_signers(b0, u)])

SourceProofs == {ProofOf("wifMaster1", CHOOSE u \in GoodUtxos : u.wif = "wifA")}

\* The first builder: made from a proof, or from the limited id of a proof
\* and the public key of the delegator, as the delegation dialog makes it.
FirstBuilders ==
    {DelegationBuilder_from_proof(p) : p \in SourceProofs}
        \cup {DelegationBuilder(p.limitedid, Key_get_pubkey(deserialize_privkey(w))) :
                 p \in SourceProofs, w \in {"wifB"}}

DelegInit ==
    /\ builder = [b \in Builders |->
                     ProofBuilder(42, 1699999999, deserialize_privkey("wifMaster1"),
                                  <<>>)]
    /\ proof = [b \in Builders |-> NoProof]
    /\ added = [b \in Builders |-> <<>>]
    /\ built_from = [b \in Builders |-> <<>>]
    /\ raised = "none"
    /\ stream = BytesIO(<<>>)
    /\ wrote = NoValue
    /\ call = NoValue
    /\ ret = NoValue
    /\ reads = 0
    /\ bb = UInt256_null
    /\ \E first \in FirstBuilders :
          dgb = [d \in Builders |-> IF d = 1 THEN first ELSE NoBuilder]
    /\ dg = [d \in Builders |-> NoDelegation]
    /\ dcall = NoCall
    /\ dprev = NoBuilder
    /\ ConsIdle /\ WizardIdle /\ HeightIdle

\* dgb[d].add_level(Key.from_wif(wif), delegated_pubkey)
add_level(d, wif, delegated_pubkey) ==
    /\ dgb[d].origin # "none"
    /\ Len(dgb[d].levels) < MaxLevels
    /\ dcall' = [op |-> "add_level", d |-> d, wif |-> wif, pubkey |-> delegated_pubkey]
    /\ dprev' = dgb[d]
    /\ raised' = add_level_raises(dgb[d], deserialize_privkey(wif))
    /\ IF add_level_raises(dgb[d], deserialize_privkey(wif)) = "none"
       THEN dgb' = [dgb EXCEPT ![d] = add_level_builder(@, deserialize_privkey(wif),
                                                        delegated_pubkey)]
       ELSE UNCHANGED dgb
    /\ UNCHANGED <<dg, builder_vars, codec_vars, cons_vars, wizard_vars, height_vars>>

\* dg[d] = dgb[d].build()
DelegationBuilder_build(d) ==
    /\ dgb[d].origin # "none"
    /\ dcall' = [op |-> "build", d |-> d, wif |-> "", pubkey |-> <<>>]
    /\ dprev' = dgb[d]
    /\ raised' = "none"
    /\ dg' = [dg EXCEPT ![d] = build_delegation(dgb[d])]
    /\ UNCHANGED <<dgb, builder_vars, codec_vars, cons_vars, wizard_vars, height_vars>>

\* dgb[2] = DelegationBuilder.from_delegation(dg[1]), once.
from_delegation ==
    /\ dgb[2].origin = "none"
    /\ dg[1].built
    /\ dcall' = [op |-> "from_delegation", d |-> 2, wif |-> "", pubkey |-> <<>>]
    /\ dprev' = dgb[2]
    /\ raised' = "none"
    /\ dgb' = [dgb EXCEPT ![2] = DelegationBuilder_from_delegation(dg[1])]
    /\ UNCHANGED <<dg, builder_vars, codec_vars, cons_vars, wizard_vars, height_vars>>

DelegNext ==
    \/ \E d \in Builders, wif \in DelegatorWifs, pubkey \in DelegatedPubkeys :
          add_level(d, wif, pubkey)
    \/ \E d \in Builders : DelegationBuilder_build(d)
    \/ from_delegation

DelegSpec == DelegInit /\ [][DelegNext]_vars


(***************************************************************************)
(* Properties of DelegationBuilder                                         *)
(***************************************************************************)

\* The last call was add_level with a key whose public key is not the
\* authority the builder had.
WrongKeyCall ==
    /\ dcall.op = "add_level"
    /\ Key_get_pubkey(deserialize_privkey(dcall.wif)) # dprev.authority

\* C21: add_level called with a delegator key whose public key differs from
\* the current authority public key raises WrongDelegatorKeyError and leaves
\* the builder (levels, running hash, authority) as it was, whatever the
\* builder was made from and however many levels it has.
C21_WrongKeyRejected ==
    WrongKeyCall =>
        /\ raised = "WrongDelegatorKeyError"
        /\ dgb[dcall.d] = dprev

\* A wrong key refused by a builder made from a delegation of one level.
C21_Witness ==
    /\ WrongKeyCall
    /\ raised = "WrongDelegatorKeyError"
    /\ dprev.origin = "delegation" /\ Len(dprev.levels) = 1
    /\ dgb[dcall.d].levels = dprev.levels


\* h_i of a delegation: h_0 is the limited proof id and h_i hashes h_(i-1)
\* with the public key delegated at level i; the levels count from 1 here.
RECURSIVE RunningHash(_, _)
RunningHash(d, i) ==
    IF i = 0 THEN d.limitedid
    ELSE sha256d(UInt256_serialize(RunningHash(d, i - 1))
                 \o PublicKey_serialize(d.levels[i].pubkey))

\* The public key that delegates at level i: the proof master key first,
\* then the key the level before delegated to.
DelegatorOf(d, i) == IF i = 1 THEN d.master_pub ELSE d.levels[i - 1].pubkey

\* sig is the signature of msg by the private key of the public key pubkey.
SignedBy(sig, pubkey, msg) ==
    \E w \in DelegatorWifs \cup MasterWifs :
        /\ Key_get_pubkey(deserialize_privkey(w)) = pubkey
        /\ sig = Key_sign_schnorr(deserialize_privkey(w), msg)

\* C22: in every Delegation build() returned, the signature of each level is
\* by the key of the level before (the proof master key for the first) over
\* the running hash that ends with the level's own delegated key.
C22_LevelsChained ==
    \A d \in Builders :
        dg[d].built =>
            \A i \in 1..Len(dg[d].levels) :
                SignedBy(dg[d].levels[i].sig, DelegatorOf(dg[d], i),
                         UInt256_serialize(RunningHash(dg[d], i)))

\* A delegation of two levels whose second delegator is not the master.
C22_Witness ==
    \E d \in Builders :
        /\ dg[d].built /\ Len(dg[d].levels) = 2
        /\ dg[d].levels[1].pubkey # dg[d].master_pub
        /\ dg[d].levels[2].pubkey # dg[d].levels[1].pubkey
        /\ SignedBy(dg[d].levels[2].sig, dg[d].levels[1].pubkey,
                    UInt256_serialize(RunningHash(dg[d], 2)))


\* The public keys delegated to, level after level.
DelegatedKeys(levels) == List([i \in 1..Len(levels) |-> levels[i].pubkey])

\* C23: the second builder, made from a Delegation the first builder
\* returned, continues as the first one does: whenever both have been given
\* the same levels they have the same running hash and the same authority
\* and build equal delegations; and a builder made from a Proof starts with
\* the proof's limited id as running hash and its master key as authority.
C23_FromDelegationResumes ==
    /\ (/\ dgb[2].origin = "delegation"
        /\ DelegatedKeys(dgb[1].levels) = DelegatedKeys(dgb[2].levels))
       => /\ dgb[2].running_hash = dgb[1].running_hash
          /\ dgb[2].authority = dgb[1].authority
          /\ build_delegation(dgb[2]) = build_delegation(dgb[1])
    /\ \A d \in Builders :
          (dgb[d].origin = "proof" /\ dgb[d].levels = <<>>)
          => \E p \in SourceProofs :
                /\ dgb[d].running_hash = p.limitedid
                /\ dgb[d].authority = p.master_pub

\* The second builder was made from a delegation of fewer than two levels
\* and both builders were then brought to the same two levels.
C23_Witness ==
    /\ dgb[2].origin = "delegation"
    /\ dg[1].built /\ Len(dg[1].levels) = 1
    /\ Len(dgb[1].levels) = 2 /\ Len(dgb[2].levels) = 2
    /\ DelegatedKeys(dgb[1].levels) = DelegatedKeys(dgb[2].levels)
    /\ dg[2] = build_delegation(dgb[1])


\* C24: an add_level that does not raise appends one level, for the
\* delegated key, after the levels there were, makes the delegated key the
\* authority and keeps the limited proof id and the master key; build()
\* returns the limited id, the master key and the levels of the builder, in
\* the builder's order.
C24_AddLevelFrame ==
    /\ (dcall.op = "add_level" /\ raised = "none")
       => LET b == dgb[dcall.d]
              n == Len(dprev.levels)
          IN  /\ Len(b.levels) = n + 1
              /\ SubSeq(b.levels, 1, n) = dprev.levels
              /\ b.levels[n + 1].pubkey = dcall.pubkey
              /\ b.authority = dcall.pubkey
              /\ b.limitedid = dprev.limitedid
              /\ b.master_pub = dprev.master_pub
    /\ dcall.op = "build"
       => /\ dg[dcall.d].built
          /\ dg[dcall.d].limitedid = dprev.limitedid
          /\ dg[dcall.d].master_pub = dprev.master_pub
          /\ dg[dcall.d].levels = dprev.levels

\* The second of two levels has just been added, for another key than the
\* first level's.
C24_Witness ==
    /\ dcall.op = "add_level" /\ raised = "none"
    /\ Len(dprev.levels) = 1 /\ Len(dgb[dcall.d].levels) = 2
    /\ dgb[dcall.d].levels[1].pubkey # dcall.pubkey
    /\ dgb[dcall.d].authority = dcall.pubkey


(***************************************************************************)
(* AddressConsolidator (electroncash/consolidate.py)                       *)
(***************************************************************************)

\* Maximum allowed size for a transaction in a block.
MAX_TX_SIZE == 1000000

\* Maximum size for transactions that nodes relay; the default max_tx_size.
MAX_STANDARD_TX_SIZE == 100000

FEE_PER_BYTE == 1

\* Number of coins of the wallet's address.
NumCoins == 8

\* The coins wallet.get_addr_utxo(address) returns: coin i is worth 1000 + i
\* and the coins go through the combinations of coinbase, frozen and SLP.
WalletCoin(i) ==
    [prevout_n |-> i, value |-> 1000 + i,
     coinbase |-> i < 4,
     is_frozen_coin |-> (i \div 2) % 2 = 0,
     slp_token |-> IF i % 2 = 0 THEN "None" ELSE "not None"]

WalletCoins == List([k \in 1..NumCoins |-> WalletCoin(k - 1)])

\* The value that stands for None in min_value_sats and max_value_sats.
None == -1

\* The filters of the constructor; a value bound is an amount or None.
Filters ==
    [include_coinbase : BOOLEAN, include_non_coinbase : BOOLEAN,
     include_frozen : BOOLEAN, include_slp : BOOLEAN,
     min_value_sats : {None, 1003}, max_value_sats : {None, 1005}]

\* The condition of the list comprehension of AddressConsolidator.__init__.
Selects(f, utxo) ==
    /\ f.include_coinbase \/ ~utxo.coinbase
    /\ f.include_non_coinbase \/ utxo.coinbase
    /\ f.include_slp \/ utxo.slp_token = "None"
    /\ f.include_frozen \/ ~utxo.is_frozen_coin
    /\ f.min_value_sats = None \/ utxo.value >= f.min_value_sats
    /\ f.max_value_sats = None \/ utxo.value <= f.max_value_sats

\* AddressConsolidator.__init__: self._coins.
AddressConsolidator(f) == SelectSeq(WalletCoins, LAMBDA utxo : Selects(f, utxo))

\* len(tx.serialize(estimate_size=True)) // 2 of a transaction of n_in
\* p2pkh inputs and n_out outputs.
estimated_size(n_in, n_out) == 148 * n_in + 34 * n_out + 10

\* The max_tx_size arguments: below, at and above the size of a transaction
\* of one input, the sizes of the tests, and one that is not below
\* MAX_TX_SIZE.
MaxTxSizes == {100, 192, 193, 200, 400, 1400, MAX_TX_SIZE}

\* A larger transactions list than any call that returns can make: each of
\* its transactions has taken a coin.  A call that goes on appending is
\* followed until its list is this long; the list is not recorded further.
Recorded(txs) == Len(txs) <= Len(selected)

ConsInit ==
    /\ builder = [b \in Builders |->
                     ProofBuilder(42, 1699999999, deserialize_privkey("wifMaster1"),
                                  <<>>)]
    /\ proof = [b \in Builders |-> NoProof]
    /\ added = [b \in Builders |-> <<>>]
    /\ built_from = [b \in Builders |-> <<>>]
    /\ raised = "none"
    /\ stream = BytesIO(<<>>)
    /\ wrote = NoValue
    /\ call = NoValue
    /\ ret = NoValue
    /\ reads = 0
    /\ bb = UInt256_null
    /\ DelegIdle
    /\ \E f \in Filters :
          /\ coins = AddressConsolidator(f)
          /\ selected = AddressConsolidator(f)
    /\ max_tx_size = 0
    /\ transactions = <<>>
    /\ tx = Transaction
    /\ tx_size = 0
    /\ tx_amount = 0
    /\ pc = "idle"
    /\ WizardIdle /\ HeightIdle

\* get_unsigned_transactions(output_address, size), up to the outer loop:
\* lines 89-91.
get_unsigned_transactions(size) ==
    /\ pc = "idle"
    /\ max_tx_size' = size
    /\ IF size < MAX_TX_SIZE
       THEN /\ raised' = "none"
            /\ pc' = "outer"
       ELSE /\ raised' = "AssertionError"
            /\ pc' = "raised"
    /\ transactions' = <<>>
    /\ UNCHANGED <<coins, selected, tx, tx_size, tx_amount>>
    /\ UNCHANGED <<builder_vars, codec_vars, deleg_vars, wizard_vars, height_vars>>

\* The test of the outer loop and lines 93-96, or the return of line 119.
outer_loop ==
    /\ pc = "outer"
    /\ IF coins # <<>>
       THEN /\ tx_size' = 0
            /\ tx_amount' = 0
            /\ tx' = Transaction
            /\ pc' = "inner"
       ELSE /\ pc' = "returned"
            /\ UNCHANGED <<tx_size, tx_amount, tx>>
    /\ UNCHANGED <<coins, selected, max_tx_size, transactions, raised>>
    /\ UNCHANGED <<builder_vars, codec_vars, deleg_vars, wizard_vars, height_vars>>

\* The inner loop taking the coin off the list before it knows whether the
\* coin fits.
inner_loop_pops_before_test ==
    /\ pc = "inner"
    /\ IF tx_size < max_tx_size /\ coins # <<>>
       THEN LET size == estimated_size(Len(tx.inputs) + 1, 1)
            IN  /\ tx_size' = size
                /\ coins' = Tail(coins)
                /\ IF size < max_tx_size
                   THEN /\ tx_amount' = tx_amount + Head(coins).value
                        /\ tx' = [inputs |-> Append(tx.inputs, Head(coins)),
                                  outputs |-> <<tx_amount + Head(coins).value
                                                    - size * FEE_PER_BYTE>>]
                   ELSE UNCHANGED <<tx_amount, tx>>
                /\ UNCHANGED <<transactions, pc>>
       ELSE /\ transactions' = IF Recorded(transactions)
                               THEN Append(transactions, tx) ELSE transactions
            /\ pc' = "outer"
            /\ UNCHANGED <<tx_size, tx_amount, tx, coins>>
    /\ UNCHANGED <<selected, max_tx_size, raised>>
    /\ UNCHANGED <<builder_vars, codec_vars, deleg_vars, wizard_vars, height_vars>>

\* The inner loop taking a coin when the size reaches max_tx_size exactly.
inner_loop_accepts_at_limit ==
    /\ pc = "inner"
    /\ IF tx_size < max_tx_size /\ coins # <<>>
       THEN LET size == estimated_size(Len(tx.inputs) + 1, 1)
            IN  /\ tx_size' = size
                /\ IF size <= max_tx_size
                   THEN /\ tx_amount' = tx_amount + Head(coins).value
                        /\ tx' = [inputs |-> Append(tx.inputs, Head(coins)),
                                  outputs |-> <<tx_amount + Head(coins).value
                                                    - size * FEE_PER_BYTE>>]
                        /\ coins' = Tail(coins)
                   ELSE UNCHANGED <<tx_amount, tx, coins>>
                /\ UNCHANGED <<transactions, pc>>
       ELSE /\ transactions' = IF Recorded(transactions)
                               THEN Append(transactions, tx) ELSE transactions
            /\ pc' = "outer"
            /\ UNCHANGED <<tx_size, tx_amount, tx, coins>>
    /\ UNCHANGED <<selected, max_tx_size, raised>>
    /\ UNCHANGED <<builder_vars, codec_vars, deleg_vars, wizard_vars, height_vars>>

\* One pass of the inner loop, lines 97-116, or line 118 when it ends.
inner_loop ==
    /\ pc = "inner"
    /\ IF tx_size < max_tx_size /\ coins # <<>>
       THEN LET size == estimated_size(Len(tx.inputs) + 1, 1)
            IN  /\ tx_size' = size
                /\ IF size < max_tx_size
                   THEN /\ tx_amount' = tx_amount + Head(coins).value
                        /\ tx' = [inputs |-> Append(tx.inputs, Head(coins)),
                                  outputs |-> <<tx_amount + Head(coins).value
                                                    - size * FEE_PER_BYTE>>]
                        /\ coins' = Tail(coins)
                   ELSE UNCHANGED <<tx_amount, tx, coins>>
                /\ UNCHANGED <<transactions, pc>>
       ELSE /\ transactions' = IF Recorded(transactions)
                               THEN Append(transactions, tx) ELSE transactions
            /\ pc' = "outer"
            /\ UNCHANGED <<tx_size, tx_amount, tx, coins>>
    /\ UNCHANGED <<selected, max_tx_size, raised>>
    /\ UNCHANGED <<builder_vars, codec_vars, deleg_vars, wizard_vars, height_vars>>

ConsNext ==
    \/ \E size \in MaxTxSizes : get_unsigned_transactions(size)
    \/ outer_loop
    \/ inner_loop

\* The interpreter goes on running the call until it returns or raises.
ConsSpec == ConsInit /\ [][ConsNext]_vars /\ WF_vars(ConsNext)


(***************************************************************************)
(* Properties of AddressConsolidator                                       *)
(***************************************************************************)

\* The sum of the values of a list of coins.
RECURSIVE SumValues(_)
SumValues(cs) == IF cs = <<>> THEN 0 ELSE Head(cs).value + SumValues(Tail(cs))

\* tx.input_value() summed over a list of transactions.
RECURSIVE InputValue(_)
InputValue(txs) ==
    IF txs = <<>> THEN 0 ELSE SumValues(Head(txs).inputs) + InputValue(Tail(txs))

\* The places (transaction, input) where a coin is spent.
SpentAt(txs, coin) ==
    {p \in (1..Len(txs)) \X (1..NumCoins) :
        p[2] <= Len(txs[p[1]].inputs) /\ txs[p[1]].inputs[p[2]] = coin}

\* C25: when get_unsigned_transactions returns, the consolidator has no
\* coin left, every coin selected at construction is an input of exactly one
\* returned transaction and the input values add up to the selected values.
C25_EveryCoinSpentOnce ==
    pc = "returned" =>
        /\ coins = <<>>
        /\ \A k \in 1..Len(selected) :
              Cardinality(SpentAt(transactions, selected[k])) = 1
        /\ InputValue(transactions) = SumValues(selected)

\* The eight coins spent by four transactions of two inputs.
C25_Witness ==
    /\ pc = "returned"
    /\ Len(selected) = NumCoins
    /\ Len(transactions) = 4
    /\ \A t \in 1..4 : Len(transactions[t].inputs) = 2


\* len(tx.serialize(estimate_size=True)) // 2 of a transaction.
SizeOf(t) == estimated_size(Len(t.inputs), Len(t.outputs))

\* C26: every transaction get_unsigned_transactions returns has an input,
\* an estimated size strictly below max_tx_size and one output, worth its
\* input values minus its size times FEE_PER_BYTE.
C26_SizeAndFee ==
    pc = "returned" =>
        \A t \in 1..Len(transactions) :
            /\ Len(transactions[t].inputs) >= 1
            /\ SizeOf(transactions[t]) < max_tx_size
            /\ Len(transactions[t].outputs) = 1
            /\ transactions[t].outputs[1]
                  = SumValues(transactions[t].inputs)
                        - SizeOf(transactions[t]) * FEE_PER_BYTE

\* Three transactions of one input each, one byte below the limit.
C26_Witness ==
    /\ pc = "returned"
    /\ max_tx_size = 193
    /\ Len(transactions) = 3
    /\ \A t \in 1..3 :
          /\ Len(transactions[t].inputs) = 1
          /\ SizeOf(transactions[t]) = 192
          /\ transactions[t].outputs = <<transactions[t].inputs[1].value - 192>>


\* C27: every call of get_unsigned_transactions with a max_tx_size below
\* MAX_TX_SIZE returns, whatever the coins selected and also when
\* max_tx_size is not above the size of a transaction of one input.
C27_Terminates == (pc = "outer") ~> (pc = "returned")


(***************************************************************************)
(* Failed add_utxo calls and the packed height                             *)
(***************************************************************************)

\* The stakes of a list of signers or of signed stakes.
StakesOf(l) == List([i \in 1..Len(l) |-> l[i].stake])

\* The two lists hold the same elements the same number of times.
SameBag(l, m) ==
    /\ Len(l) = Len(m)
    /\ \A i \in 1..Len(l) : Occurrences(l, l[i]) = Occurrences(m, l[i])

\* C28: a step that raises (an add_utxo call with a malformed WIF key or a
\* field outside its integer range) leaves every builder's stake_signers
\* as it was, and a Proof that build() returns holds the stakes of the
\* successful add_utxo calls made before it and no other.
C28_FailedAddLeavesBuilder ==
    [][/\ raised' # "none" => builder' = builder
       /\ \A b \in Builders :
             proof'[b] # proof[b] =>
                 SameBag(StakesOf(proof'[b].stakes), CallStakes(added[b]))]_vars

\* A call has just failed on packing while both builders hold one stake,
\* and the proof the first builder returned holds the stake of its one
\* successful call.
C28_Witness ==
    /\ raised = "struct.error"
    /\ \A b \in Builders : Len(builder[b].stake_signers) = 1
    /\ Built(1) /\ Len(proof[1].stakes) = 1
    /\ proof[1].stakes[1].stake = StakeOf(added[1][1])



(***************************************************************************)
(* The packed height of a Stake, on Python's ints of any size              *)
(***************************************************************************)

\* mag << 1 | bit on the digits of a magnitude, bit being 0 or 1: each digit
\* is doubled and takes the top bit of the digit below it.
RECURSIVE ShiftIn(_, _)
ShiftIn(mag, bit) ==
    IF mag = <<>> THEN (IF bit = 0 THEN <<>> ELSE <<bit>>)
    ELSE <<(2 * mag[1] + bit) % 256>> \o ShiftIn(Tail(mag), mag[1] \div 128)

\* self.height << 1 | is_coinbase, as height_ser computes it, for a height
\* that is not negative and of any size.
height_ser_int(height, is_coinbase) ==
    PyInt(FALSE, ShiftIn(height.mag, IF is_coinbase THEN 1 ELSE 0))

\* struct.pack("I", ...) taking the low 32 bits of whatever it is given.
Stake_height_raises_wrapping(height, is_coinbase) == "none"

\* The exception struct.pack("qI", self.amount, height_ser) raises on the
\* height, or "none": format I takes 0 .. 2^32 - 1.
Stake_height_raises(height, is_coinbase) ==
    IF IntLess(height_ser_int(height, is_coinbase), TwoTo8(4))
    THEN "none" ELSE "struct.error"

\* The heights a Stake is constructed with: every combination of low, high
\* and boundary bytes, up to 2^32 + 2^32 - 1.
Heights ==
    { Unpack(<<b1, b2, b3, b4, b5>>) :
        b1 \in {0, 1, 255}, b2 \in {0, 255}, b3 \in {0, 255},
        b4 \in {0, 127, 128, 255}, b5 \in {0, 1} }

\* The arguments of Stake(utxo, amount, height, pubkey, is_coinbase).
HeightInit ==
    /\ builder = [b \in Builders |->
                     ProofBuilder(42, 1699999999, deserialize_privkey("wifMaster1"),
                                  <<>>)]
    /\ proof = [b \in Builders |-> NoProof]
    /\ added = [b \in Builders |-> <<>>]
    /\ built_from = [b \in Builders |-> <<>>]
    /\ raised = "none"
    /\ stream = BytesIO(<<>>)
    /\ wrote = NoValue
    /\ call = NoValue
    /\ ret = NoValue
    /\ reads = 0
    /\ bb = UInt256_null
    /\ DelegIdle /\ ConsIdle /\ WizardIdle
    /\ stake_height \in Heights
    /\ stake_is_coinbase \in BOOLEAN
    /\ height_field = <<>>
    /\ height_raised = "none"

\* Stake.__init__ serializing the stake for its stake_id: the four bytes of
\* the height field, or the exception and no Stake.
Stake_init ==
    /\ height_field = <<>> /\ height_raised = "none"
    /\ height_raised' = Stake_height_raises(stake_height, stake_is_coinbase)
    /\ height_field' =
          IF Stake_height_raises(stake_height, stake_is_coinbase) = "none"
          THEN Pack(height_ser_int(stake_height, stake_is_coinbase), 4)
          ELSE <<>>
    /\ UNCHANGED <<stake_height, stake_is_coinbase, builder_vars, raised,
                   codec_vars, deleg_vars, cons_vars, wizard_vars>>

HeightNext == Stake_init

HeightSpec == HeightInit /\ [][HeightNext]_vars

\* 2^31
TwoTo31 == Unpack(<<0, 0, 0, 128>>)

\* The four bytes Stake.__init__ packs for a height and a flag, <<>> if it
\* raises.
FieldOf(height, is_coinbase) ==
    IF Stake_height_raises(height, is_coinbase) = "none"
    THEN Pack(height_ser_int(height, is_coinbase), 4) ELSE <<>>

\* C29: the packed height field of a serialized Stake never loses
\* information.  Once Stake.__init__ has run on a height h >= 0 and a flag c:
\* if h < 2^31 no error was raised and the 32-bit field is 2 h + c (stated on
\* the two 16-bit halves of h and of the field, and, for the heights below
\* 2^24, as the bytes Stake_serialize writes), and no other pair (h2, c2)
\* with h2 < 2^31 packs to the same field; if h >= 2^31 the packing raised
\* struct.error and there is no field: nothing was wrapped modulo 2^32.
C29_PackedHeightExact ==
    (height_field # <<>> \/ height_raised # "none") =>
        LET h == Pack(stake_height, 5)
            c == IF stake_is_coinbase THEN 1 ELSE 0
            lo == h[1] + 256 * h[2]
            hi == h[3] + 256 * h[4]
        IN  IF IntLess(stake_height, TwoTo31)
            THEN /\ height_raised = "none"
                 /\ Len(height_field) = 4
                 /\ height_field[1] + 256 * height_field[2]
                        = (2 * lo + c) % 65536
                 /\ height_field[3] + 256 * height_field[4]
                        = 2 * hi + (2 * lo + c) \div 65536
                 /\ h[4] = 0 =>
                        height_field
                            = LE(height_ser(lo + 65536 * h[3], stake_is_coinbase), 4)
                 /\ \A h2 \in Heights, c2 \in BOOLEAN :
                        IntLess(h2, TwoTo31) /\ FieldOf(h2, c2) = height_field
                            => h2 = stake_height /\ c2 = stake_is_coinbase
            ELSE /\ height_raised = "struct.error"
                 /\ height_field = <<>>

\* A coinbase Stake of the largest height, 2^31 - 1, was packed: its field
\* is 2^32 - 1.
C29_Witness ==
    /\ stake_height = Unpack(<<255, 255, 255, 127>>)
    /\ stake_is_coinbase
    /\ height_raised = "none"
    /\ height_field = <<255, 255, 255, 255>>



(***************************************************************************)
(* The consolidation wizard of consolidate_coins_dialog.py                 *)
(***************************************************************************)

\* A signal of the worker queued for the GUI thread: its name and its
\* argument, a status or a list of transactions.
Signal(name, st, txs) == [signal |-> name, status |-> st, transactions |-> txs]

\* Values of tx_size_sb: its minimum, a small size, its default value and
\* its maximum.
TxSizeSb == {192, 400, MAX_STANDARD_TX_SIZE, MAX_TX_SIZE}

\* on_page_changed on the transactions page: the worker is constructed with
\* the wizard's settings, its signals are connected and the thread started.
WizardInit ==
    /\ builder = [b \in Builders |->
                     ProofBuilder(42, 1699999999, deserialize_privkey("wifMaster1"),
                                  <<>>)]
    /\ proof = [b \in Builders |-> NoProof]
    /\ added = [b \in Builders |-> <<>>]
    /\ built_from = [b \in Builders |-> <<>>]
    /\ raised = "none"
    /\ stream = BytesIO(<<>>)
    /\ wrote = NoValue
    /\ call = NoValue
    /\ ret = NoValue
    /\ reads = 0
    /\ bb = UInt256_null
    /\ DelegIdle /\ HeightIdle
    /\ \E f \in Filters :
          /\ coins = AddressConsolidator(f)
          /\ selected = AddressConsolidator(f)
    /\ max_tx_size \in TxSizeSb
    /\ transactions = <<>>
    /\ tx = Transaction
    /\ tx_size = 0
    /\ tx_amount = 0
    /\ pc = "started"
    /\ WizardIdle

\* ConsolidateWorker.build_transactions, up to the outer loop of
\* get_unsigned_transactions: the status is emitted and the call begins.
build_transactions ==
    /\ pc = "started"
    /\ events' = Append(events, Signal("status_changed", "BUILDING", <<>>))
    /\ IF max_tx_size < MAX_TX_SIZE
       THEN /\ raised' = "none"
            /\ pc' = "outer"
       ELSE /\ raised' = "AssertionError"
            /\ pc' = "raised"
    /\ UNCHANGED <<status, wizard_txs, failed>>
    /\ UNCHANGED <<coins, selected, max_tx_size, transactions, tx, tx_size, tx_amount>>
    /\ UNCHANGED <<builder_vars, codec_vars, deleg_vars, height_vars>>

\* build_transactions after get_unsigned_transactions has returned, lines
\* 67-72: FINISHED for a list that is not empty, then the list.
build_transactions_returned ==
    /\ pc = "returned"
    /\ events' = events
                    \o (IF transactions # <<>>
                        THEN <<Signal("status_changed", "FINISHED", <<>>)>>
                        ELSE <<>>)
                    \o <<Signal("transactions_ready", "NOT_STARTED", transactions)>>
    /\ pc' = "finished"
    /\ UNCHANGED <<status, wizard_txs, failed, raised>>
    /\ UNCHANGED <<coins, selected, max_tx_size, transactions, tx, tx_size, tx_amount>>
    /\ UNCHANGED <<builder_vars, codec_vars, deleg_vars, height_vars>>

\* TransactionsPage.set_unsigned_transactions: the status it leaves.
set_unsigned_transactions(self_status, txs) ==
    IF txs = <<>> THEN "NO_RESULT" ELSE self_status

\* The GUI thread running the slot of the signal at the head of its queue:
\* TransactionsPage.update_status or
\* ConsolidateCoinsWizard.on_build_transactions_finished, where
\* self.transactions[0] raises IndexError on an empty list.
deliver ==
    /\ events # <<>>
    /\ events' = Tail(events)
    /\ LET e == Head(events)
       IN  IF e.signal = "status_changed"
           THEN /\ status' = e.status
                /\ UNCHANGED <<wizard_txs, failed>>
           ELSE /\ wizard_txs' = e.transactions
                /\ IF e.transactions = <<>>
                   THEN /\ failed' = "IndexError"
                        /\ UNCHANGED status
                   ELSE /\ status' = set_unsigned_transactions(status, e.transactions)
                        /\ UNCHANGED failed
    /\ UNCHANGED <<cons_vars, raised>>
    /\ UNCHANGED <<builder_vars, codec_vars, deleg_vars, height_vars>>

WizardNext ==
    \/ build_transactions
    \/ outer_loop
    \/ inner_loop
    \/ build_transactions_returned
    \/ deliver

WizardSpec == WizardInit /\ [][WizardNext]_vars

\* C30: when the worker has finished building and every signal it emitted
\* has been handled, an empty list of transactions leaves the page in
\* status NO_RESULT; with an empty list the status is never FINISHED and no
\* handler has failed.
C30_EmptyListNoResult ==
    (pc = "finished" /\ transactions = <<>>) =>
        /\ status # "FINISHED"
        /\ failed = "none"
        /\ events = <<>> => status = "NO_RESULT"

====
